---- MODULE Spec2Model ----
(***************************************************************************)
(* State-machine model of the web-agent backend: the per-session alias     *)
(* table (backend/app/alias.py), the tool dispatcher (backend/app/tools.py)*)
(* and the reminder service over its persistent store                      *)
(* (backend/app/reminders.py, persistent_reminder_store.py,                *)
(* reminder_serialization.py).                                             *)
(*                                                                         *)
(* Python values are modelled as follows: a dict is a TLA+ function from   *)
(* its keys to its values (a record), a list is a sequence, a str is a     *)
(* string, str(n) is ToString(n), and None in a string-typed position is   *)
(* the sentinel string None, which no identifier domain contains.          *)
(***************************************************************************)
EXTENDS Integers, Sequences, FiniteSets, TLC

VARIABLES
    alias_state,   \* SessionData.alias_state: [counter, aliases, reverse]
    issued,        \* history: <<identity, alias>> of every register_* / mask_* call since the last reset
    was_reset,     \* history: AliasService.reset has run in this session
    lastOp,        \* history: the last operation, its inputs and what it returned
    calendar_cache,\* SessionData.calendar_cache
    now,           \* utils.now(), in minutes
    user,          \* SessionData.user: the id of the logged-in user, or None
    task_lists_cache, \* SessionData.task_lists_cache
    _data,         \* PersistentReminderStore._data: owner key -> list of reminders
    file,          \* what the reminder file holds
    _lock,         \* PersistentReminderStore._lock: the thread holding it, or None
    threads,       \* per request thread: where it is in its call and what it holds
    last_write,    \* history: how the last write_text of _persist ended:
                   \* "none" (never ran), "ok" or "failed"
    google,        \* SessionData.google: the number of the session's Google
                   \* connection, or None; calls that are handed the
                   \* connection as an argument do not read it
    _sessions,     \* SessionStore._sessions: session id -> SessionData, whose
                   \* alias_state, calendar_cache and task_lists_cache fields
                   \* name objects of the heap
    heap           \* the dict and cache objects of the sessions, by identity

vars ==
    <<alias_state, issued, was_reset, lastOp, calendar_cache, now, user,
      task_lists_cache, _data, file, _lock, threads, last_write, google,
      _sessions, heap>>

\* The request threads and the store lock.
threadVars == <<_lock, threads>>

\* The session store and the objects of its sessions.
storeVars == <<_sessions, heap>>

\* The reminder side of the program.
reminderVars ==
    <<user, google, task_lists_cache, _data, file, last_write, threadVars>>

\* What the alias-table operations leave alone.
sessionVars == <<calendar_cache, now, reminderVars>>

-----------------------------------------------------------------------------
(* Bounds and input domains *)

\* Cap on the alias counter: a registration that would pass it is not taken.
MaxAliases == 2

\* Longest list handed to a mask_* operation.
MaxItems == 1
MaxReminders == 2

\* Python None in a string-typed position.
None == "None"

\* dict.get on a missing alias: no payload.
NoPayload == [x \in {} |-> x]

EmptyMap == [x \in {} |-> x]

\* Real identifiers handed to register_*; "1" is a real id that looks like an alias.
Ids == {"x", "1"}

\* Access roles a calendar entry may carry (None when absent).
AccessRoles == {"owner", None}

\* Strings a caller may hand to resolve_*: a real id, a real id that is also
\* an alias, an alias and an unknown string.
Strings == Ids \cup {"2", "zz"}

\* All sequences over S of length 0..n.
SeqsUpTo(S, n) == UNION {[1..k -> S] : k \in 0..n}

-----------------------------------------------------------------------------
(* backend/app/alias.py *)

\* The field names of all payloads in the order sorted() puts them.
SortedFields ==
    <<"access_role", "calendar_id", "event_id", "readonly", "task_id",
      "task_list_id", "type">>

\* dict.get(field, default)
Get(payload, field, default) ==
    IF field \in DOMAIN payload THEN payload[field] ELSE default

\* AliasService._payload_key with the event's readonly flag kept in the key.
PayloadKeyKeepsReadonly(payload) ==
    LET dropped == IF payload.type = "calendar" THEN {"access_role"} ELSE {}
        names == SelectSeq(SortedFields,
                           LAMBDA f : f \in (DOMAIN payload \ dropped))
    IN  [i \in 1..Len(names) |-> <<names[i], payload[names[i]]>>]

\* AliasService._payload_key with the event's calendar_id left out of the key.
PayloadKeyDropsCalendar(payload) ==
    LET dropped ==
            (IF payload.type = "event" THEN {"readonly", "calendar_id"} ELSE {})
            \cup (IF payload.type = "calendar" THEN {"access_role"} ELSE {})
        names == SelectSeq(SortedFields,
                           LAMBDA f : f \in (DOMAIN payload \ dropped))
    IN  [i \in 1..Len(names) |-> <<names[i], payload[names[i]]>>]

\* AliasService._payload_key: repr(sorted(items)) of the payload without
\* readonly (event) and access_role (calendar).  The repr string is modelled
\* by the sorted list of (name, value) pairs it prints.
_payload_key(payload) ==
    LET dropped ==
            (IF payload.type = "event" THEN {"readonly"} ELSE {})
            \cup (IF payload.type = "calendar" THEN {"access_role"} ELSE {})
        names == SelectSeq(SortedFields,
                           LAMBDA f : f \in (DOMAIN payload \ dropped))
    IN  [i \in 1..Len(names) |-> <<names[i], payload[names[i]]>>]

\* AliasService._register that does not store the advanced counter.
RegisterForgetsCounter(s, payload) ==
    LET key == _payload_key(payload) IN
    IF key \in DOMAIN s.reverse
    THEN [state |-> s, alias |-> s.reverse[key]]
    ELSE LET counter == s.counter + 1
             alias == ToString(counter)
         IN  [state |-> [counter |-> s.counter,
                         aliases |-> (alias :> payload) @@ s.aliases,
                         reverse |-> (key :> alias) @@ s.reverse],
              alias |-> alias]

\* AliasService._register: the alias of the payload's key, a new one
\* (counter + 1, stringified) only when the key is unseen.
_register(s, payload) ==
    LET key == _payload_key(payload) IN
    IF key \in DOMAIN s.reverse
    THEN [state |-> s, alias |-> s.reverse[key]]
    ELSE LET counter == s.counter + 1
             alias == ToString(counter)
         IN  [state |-> [counter |-> counter,
                         aliases |-> (alias :> payload) @@ s.aliases,
                         reverse |-> (key :> alias) @@ s.reverse],
              alias |-> alias]

CalendarPayload(calendar_id, access_role) ==
    [type |-> "calendar", calendar_id |-> calendar_id, access_role |-> access_role]

TaskListPayload(task_list_id) ==
    [type |-> "task_list", task_list_id |-> task_list_id]

TaskPayload(task_list_id, task_id) ==
    [type |-> "task", task_list_id |-> task_list_id, task_id |-> task_id]

EventPayload(event_id, calendar_id, readonly) ==
    [type |-> "event", event_id |-> event_id, calendar_id |-> calendar_id,
     readonly |-> readonly]

register_calendar(s, calendar_id, access_role) ==
    _register(s, CalendarPayload(calendar_id, access_role))

register_task_list(s, task_list_id) ==
    _register(s, TaskListPayload(task_list_id))

register_task(s, task_list_id, task_id) ==
    _register(s, TaskPayload(task_list_id, task_id))

register_event(s, event_id, calendar_id, readonly) ==
    _register(s, EventPayload(event_id, calendar_id, readonly))

\* AliasService._payload: aliases.get(alias)
_payload(s, alias) ==
    IF alias \in DOMAIN s.aliases THEN s.aliases[alias] ELSE NoPayload

\* resolve_calendar without the type test.
ResolveCalendarAnyType(s, alias_or_real) ==
    LET payload == _payload(s, alias_or_real) IN
    IF payload # NoPayload
    THEN Get(payload, "calendar_id", alias_or_real)
    ELSE alias_or_real

resolve_calendar(s, alias_or_real) ==
    LET payload == _payload(s, alias_or_real) IN
    IF payload # NoPayload /\ Get(payload, "type", None) = "calendar"
    THEN Get(payload, "calendar_id", alias_or_real)
    ELSE alias_or_real

resolve_task_list(s, alias_or_real) ==
    LET payload == _payload(s, alias_or_real) IN
    IF payload # NoPayload /\ Get(payload, "type", None) = "task_list"
    THEN Get(payload, "task_list_id", alias_or_real)
    ELSE alias_or_real

\* resolve_task that takes the list id from the list argument only.
ResolveTaskIgnoresPayloadList(s, task_list_alias, task_alias) ==
    LET task_list_id == resolve_task_list(s, task_list_alias)
        payload == _payload(s, task_alias)
    IN  IF payload # NoPayload /\ Get(payload, "type", None) = "task"
        THEN <<task_list_id, Get(payload, "task_id", task_alias)>>
        ELSE <<task_list_id, task_alias>>

resolve_task(s, task_list_alias, task_alias) ==
    LET task_list_id == resolve_task_list(s, task_list_alias)
        payload == _payload(s, task_alias)
    IN  IF payload # NoPayload /\ Get(payload, "type", None) = "task"
        THEN <<Get(payload, "task_list_id", task_list_id),
               Get(payload, "task_id", task_alias)>>
        ELSE <<task_list_id, task_alias>>

resolve_event(s, alias_or_real, default_calendar) ==
    LET payload == _payload(s, alias_or_real) IN
    IF payload # NoPayload /\ Get(payload, "type", None) = "event"
    THEN <<Get(payload, "calendar_id", default_calendar),
           Get(payload, "event_id", alias_or_real)>>
    ELSE <<default_calendar, alias_or_real>>

event_is_readonly(s, event_alias) ==
    LET payload == _payload(s, event_alias) IN
    IF payload # NoPayload /\ Get(payload, "type", None) = "event"
    THEN Get(payload, "readonly", FALSE)
    ELSE FALSE

\* {k: v for k, v in item.items() if k not in removed}, then item[field] = value
Without(item, removed) == [k \in (DOMAIN item \ removed) |-> item[k]]

\* mask_calendar: register the calendar, drop id/calendar_id, put the alias in id.
mask_calendar(s, calendar) ==
    LET reg == register_calendar(s, calendar.id, Get(calendar, "access_role", None))
    IN  [state |-> reg.state,
         out |-> ("id" :> reg.alias) @@ Without(calendar, {"id", "calendar_id"})]

RECURSIVE mask_calendars(_, _)
mask_calendars(s, calendars) ==
    IF calendars = <<>> THEN [state |-> s, out |-> <<>>]
    ELSE LET head == mask_calendar(s, Head(calendars))
             rest == mask_calendars(head.state, Tail(calendars))
         IN  [state |-> rest.state, out |-> <<head.out>> \o rest.out]

\* item.get("title") or item.get("name")
TitleOf(item) ==
    IF Get(item, "title", None) # None THEN item.title ELSE Get(item, "name", None)

\* mask_task_lists: {"id": alias, "title": title or name} for each item.
RECURSIVE mask_task_lists(_, _)
mask_task_lists(s, lists) ==
    IF lists = <<>> THEN [state |-> s, out |-> <<>>]
    ELSE LET item == Head(lists)
             reg == register_task_list(s, item.id)
             rest == mask_task_lists(reg.state, Tail(lists))
         IN  [state |-> rest.state,
              out |-> <<[id |-> reg.alias, title |-> TitleOf(item)]>> \o rest.out]

\* mask_task that leaves the real id in place.
MaskTaskKeepsId(s, task, task_list_id) ==
    LET reg == register_task(s, task_list_id, task.id)
    IN  [state |-> reg.state, out |-> task]

mask_task(s, task, task_list_id) ==
    LET reg == register_task(s, task_list_id, task.id)
    IN  [state |-> reg.state,
         out |-> ("id" :> reg.alias) @@ Without(task, {"id"})]

RECURSIVE mask_tasks(_, _, _)
mask_tasks(s, tasks, task_list_id) ==
    IF tasks = <<>> THEN [state |-> s, out |-> <<>>]
    ELSE LET head == mask_task(s, Head(tasks), task_list_id)
             rest == mask_tasks(head.state, Tail(tasks), task_list_id)
         IN  [state |-> rest.state, out |-> <<head.out>> \o rest.out]

\* mask_event: readonly = bool(event.get("readonly", False)); the alias
\* replaces id, calendar_id is dropped and readonly is attached.
mask_event(s, event, calendar_id) ==
    LET readonly == Get(event, "readonly", FALSE)
        reg == register_event(s, event.id, calendar_id, readonly)
    IN  [state |-> reg.state,
         out |-> ("id" :> reg.alias) @@ ("readonly" :> readonly)
                 @@ Without(event, {"id", "calendar_id"})]

\* event.get("calendar_id") or calendar_id or "primary"
TargetCalendar(event, calendar_id) ==
    IF Get(event, "calendar_id", None) # None THEN event.calendar_id
    ELSE IF calendar_id # None THEN calendar_id
    ELSE "primary"

RECURSIVE mask_events(_, _, _)
mask_events(s, events, calendar_id) ==
    IF events = <<>> THEN [state |-> s, out |-> <<>>]
    ELSE LET head == mask_event(s, Head(events),
                                TargetCalendar(Head(events), calendar_id))
             rest == mask_events(head.state, Tail(events), calendar_id)
         IN  [state |-> rest.state, out |-> <<head.out>> \o rest.out]

\* AliasService.reset / SessionData.alias_state default
EmptyAliasState == [counter |-> 0, aliases |-> EmptyMap, reverse |-> EmptyMap]

-----------------------------------------------------------------------------
(* backend/app/calendar_visibility.py *)

\* Optional[datetime] = None; the clock starts after it.
NoTime == 0

CALENDAR_LIST_TTL_MINUTES == 30

VISIBLE_SELECTION_TTL_DAYS == 7

\* timedelta(days = VISIBLE_SELECTION_TTL_DAYS), in minutes
VisibleSelectionTtl == VISIBLE_SELECTION_TTL_DAYS * 24 * 60

\* CalendarCache()
EmptyCalendarCache ==
    [available |-> <<>>, available_expires_at |-> NoTime,
     visible_ids |-> <<>>, visible_expires_at |-> NoTime]

\* TaskListCache()
EmptyTaskListCache == [task_lists |-> <<>>, expires_at |-> NoTime]

\* The threads that serve requests, and a thread that is serving none.
Threads == {"t1", "t2"}
Thread(pc, op, owner, trigger, connection, reminder, held, copies, raised,
       result, calls) ==
    [pc |-> pc, op |-> op, owner |-> owner, trigger |-> trigger,
     connection |-> connection, reminder |-> reminder, held |-> held,
     copies |-> copies, raised |-> raised, result |-> result, calls |-> calls]
IdleThread ==
    Thread("idle", "none", None, None, FALSE, <<>>, <<>>, <<>>, FALSE, <<>>, <<>>)
IdleThreads == [t \in Threads |-> IdleThread]

\* The reminder file.  readable: the file exists, can be read and is JSON;
\* payload: the JSON type of its content; owners_kind: whether the object has
\* an "owners" member that is an object; owners: that member.  NoFile is a
\* file that is missing, unreadable or not JSON.
NoFile ==
    [readable |-> FALSE, payload |-> "none", owners_kind |-> "absent",
     owners |-> EmptyMap]

is_readonly_access(access_role) == access_role \notin {"owner", "writer"}

\* A filter that lets every access role through.
SupportsAnyRole(access_role) == TRUE

_supports_events(access_role) == access_role \in {"owner", "writer", "reader"}

_with_readonly_flag(calendar) ==
    ("readonly" :> is_readonly_access(Get(calendar, "access_role", None)))
    @@ calendar

\* [f(x) for x in xs]
RECURSIVE MapSeq(_, _)
MapSeq(f(_), xs) ==
    IF xs = <<>> THEN <<>> ELSE <<f(Head(xs))>> \o MapSeq(f, Tail(xs))

\* available_calendars: the cached list while it is populated and unexpired,
\* otherwise one read of the external source.  reply is what
\* GoogleCalendarService.list_calendars answers: [ok, items]; reads counts
\* the calls of list_calendars.
available_calendars(cache, t, reply) ==
    IF /\ cache.available # <<>>
       /\ cache.available_expires_at # NoTime
       /\ cache.available_expires_at > t
    THEN [raised |-> FALSE, cache |-> cache, out |-> cache.available, reads |-> 0]
    ELSE IF ~reply.ok
    THEN [raised |-> TRUE, cache |-> cache, out |-> <<>>, reads |-> 1]
    ELSE LET calendars ==
                 MapSeq(_with_readonly_flag,
                        SelectSeq(reply.items,
                                  LAMBDA c : _supports_events(Get(c, "access_role", None))))
         IN  [raised |-> FALSE,
              cache |-> [cache EXCEPT !.available = calendars,
                                      !.available_expires_at =
                                            t + CALENDAR_LIST_TTL_MINUTES],
              out |-> calendars, reads |-> 1]

\* any(c["id"] == cid for c in available)
HasCalendar(available, cid) ==
    \E i \in 1..Len(available) : available[i].id = cid

\* A default that shows every available calendar.
DefaultEveryCalendar(available) == [i \in 1..Len(available) |-> available[i].id]

_default_visible_ids(available) ==
    LET primaries == SelectSeq(available, LAMBDA c : Get(c, "primary", FALSE))
    IN  IF primaries # <<>> THEN <<primaries[1].id>> ELSE <<>>

\* A selection that never expires.
VisibleIdsNeverExpire(cache, t, available) ==
    LET normalized ==
            SelectSeq(cache.visible_ids, LAMBDA cid : HasCalendar(available, cid))
        defaults == _default_visible_ids(available)
    IN  IF cache.visible_ids # <<>> /\ normalized # <<>>
        THEN [cache |-> cache, out |-> normalized]
        ELSE [cache |-> [cache EXCEPT !.visible_ids = defaults,
                                      !.visible_expires_at = t + VisibleSelectionTtl],
              out |-> defaults]

\* _visible_calendar_ids with the fallback that returns the defaults but leaves
\* the stored ids and their expiry alone.
DefaultsNotStored(cache, t, available) ==
    LET normalized ==
            SelectSeq(cache.visible_ids, LAMBDA cid : HasCalendar(available, cid))
    IN  IF /\ cache.visible_ids # <<>>
           /\ cache.visible_expires_at # NoTime
           /\ cache.visible_expires_at > t
           /\ normalized # <<>>
        THEN [cache |-> cache, out |-> normalized]
        ELSE [cache |-> cache, out |-> _default_visible_ids(available)]

_visible_calendar_ids(cache, t, available) ==
    LET normalized ==
            SelectSeq(cache.visible_ids, LAMBDA cid : HasCalendar(available, cid))
        defaults == _default_visible_ids(available)
    IN  IF /\ cache.visible_ids # <<>>
           /\ cache.visible_expires_at # NoTime
           /\ cache.visible_expires_at > t
           /\ normalized # <<>>
        THEN [cache |-> cache, out |-> normalized]
        ELSE [cache |-> [cache EXCEPT !.visible_ids = defaults,
                                      !.visible_expires_at = t + VisibleSelectionTtl],
              out |-> defaults]

\* cid in visible_ids
InSeq(xs, x) == \E i \in 1..Len(xs) : xs[i] = x

visible_calendars(cache, t, reply) ==
    LET avail == available_calendars(cache, t, reply) IN
    IF avail.raised
    THEN [raised |-> TRUE, cache |-> avail.cache, out |-> <<>>, reads |-> avail.reads]
    ELSE LET ids == _visible_calendar_ids(avail.cache, t, avail.out)
         IN  [raised |-> FALSE, cache |-> ids.cache,
              out |-> SelectSeq(avail.out, LAMBDA c : InSeq(ids.out, c.id)),
              reads |-> avail.reads]

\* A list that keeps its repeats.
KeepRepeats(xs) == xs

\* list(dict.fromkeys(xs)): the first occurrence of each element, in order.
RECURSIVE Dedup(_)
Dedup(xs) ==
    IF xs = <<>> THEN <<>>
    ELSE LET front == Dedup(SubSeq(xs, 1, Len(xs) - 1))
             last == xs[Len(xs)]
         IN  IF InSeq(front, last) THEN front ELSE Append(front, last)

\* update_visible_calendars: reply answers its own read of the calendar
\* list, again the read that visible_calendars makes when the list is empty.
update_visible_calendars(cache, t, reply, again, calendar_ids) ==
    LET avail == available_calendars(cache, t, reply) IN
    IF avail.raised
    THEN [raised |-> TRUE, cache |-> avail.cache, out |-> <<>>, reads |-> avail.reads]
    ELSE LET filtered ==
                 SelectSeq(calendar_ids, LAMBDA cid : HasCalendar(avail.out, cid))
         IN  visible_calendars(
                 [avail.cache EXCEPT !.visible_ids = Dedup(filtered),
                                     !.visible_expires_at = t + VisibleSelectionTtl],
                 t, again)

refresh_calendars(cache, t, reply) ==
    available_calendars([cache EXCEPT !.available = <<>>,
                                      !.available_expires_at = NoTime],
                        t, reply)

\* A check that lets a calendar missing from the available list be written.
WritableWhenUnlisted(cache, t, reply, calendar_id) ==
    LET avail == available_calendars(cache, t, reply)
        found == SelectSeq(avail.out, LAMBDA c : c.id = calendar_id)
    IN  IF avail.raised
        THEN [raised |-> TRUE, cache |-> avail.cache, out |-> TRUE,
              reads |-> avail.reads]
        ELSE [raised |-> FALSE, cache |-> avail.cache,
              out |-> IF found = <<>> THEN FALSE
                      ELSE is_readonly_access(Get(found[1], "access_role", None)),
              reads |-> avail.reads]

is_readonly(cache, t, reply, calendar_id) ==
    LET avail == available_calendars(cache, t, reply)
        found == SelectSeq(avail.out, LAMBDA c : c.id = calendar_id)
    IN  IF avail.raised
        THEN [raised |-> TRUE, cache |-> avail.cache, out |-> TRUE,
              reads |-> avail.reads]
        ELSE [raised |-> FALSE, cache |-> avail.cache,
              out |-> IF found = <<>> THEN TRUE
                      ELSE is_readonly_access(Get(found[1], "access_role", None)),
              reads |-> avail.reads]

-----------------------------------------------------------------------------
(* backend/app/tools.py *)

\* What one tool call leaves behind: whether it raised, the alias table and
\* the calendar cache after it, the dict it returned, and the calls it made
\* to the external calendar and task sources.  A returned dict is held as its
\* scalar entries (fields) and the masked items of its list or item entry
\* (items).
ToolReturn(raised, s, cache, fields, items) ==
    [raised |-> raised, alias_state |-> s, calendar_cache |-> cache,
     result |-> [fields |-> fields, items |-> items], calls |-> <<>>]

\* One call of a method of GoogleTasksService or GoogleCalendarService and
\* what it answered.
Call(source, reply) == [source |-> source, reply |-> reply]

\* The outcome ret of the code that runs after calls were made.
After(calls, ret) == [ret EXCEPT !.calls = calls \o @]

\* The calls of list_calendars behind one use of the visibility service.
ListCalendarsCalls(reads, reply) ==
    IF reads = 0 THEN <<>> ELSE <<Call("list_calendars", reply)>>

ToolRaise(s, cache) == ToolReturn(TRUE, s, cache, EmptyMap, <<>>)

\* value in (None, "")
Blank(value) == value \in {None, ""}

\* parse_local_datetime / parse_date_only raise on text that is no date.
BadDate(arguments, key) == Get(arguments, key, None) = "bad"

\* ToolExecutor._resolve_task_list_id: lists is what list_task_lists answers.
_resolve_task_list_id(s, task_list_id, lists) ==
    IF ~Blank(task_list_id)
    THEN [raised |-> FALSE, state |-> s, out |-> resolve_task_list(s, task_list_id),
          calls |-> <<>>]
    ELSE IF ~lists.ok \/ lists.items = <<>>
    THEN [raised |-> TRUE, state |-> s, out |-> None,
          calls |-> <<Call("list_task_lists", lists)>>]
    ELSE [raised |-> FALSE,
          state |-> register_task_list(s, lists.items[1].id).state,
          out |-> lists.items[1].id,
          calls |-> <<Call("list_task_lists", lists)>>]

\* case "list_task_lists"
_list_task_lists(s, cache, env) ==
    After(<<Call("list_task_lists", env.task_lists)>>,
          IF ~env.task_lists.ok THEN ToolRaise(s, cache)
          ELSE LET masked == mask_task_lists(s, env.task_lists.items)
               IN  ToolReturn(FALSE, masked.state, cache, EmptyMap, masked.out))

\* case "list_tasks"
_list_tasks(s, cache, arguments, env) ==
    LET list == _resolve_task_list_id(s, Get(arguments, "task_list_id", None),
                                      env.task_lists)
    IN  After(list.calls,
          IF list.raised THEN ToolRaise(list.state, cache)
          ELSE IF BadDate(arguments, "start_date") \/ BadDate(arguments, "end_date")
          THEN ToolRaise(list.state, cache)
          ELSE After(<<Call("list_tasks", env.tasks)>>,
            IF ~env.tasks.ok THEN ToolRaise(list.state, cache)
            ELSE LET reg == register_task_list(list.state, list.out)
                     masked == mask_tasks(reg.state, env.tasks.items, list.out)
                 IN  ToolReturn(FALSE, masked.state, cache,
                                [task_list_id |-> reg.alias], masked.out)))

_create_task(s, cache, arguments, env) ==
    LET list == _resolve_task_list_id(s, Get(arguments, "task_list_id", None),
                                      env.task_lists)
    IN  After(list.calls,
          IF list.raised THEN ToolRaise(list.state, cache)
          ELSE IF BadDate(arguments, "due_date") \/ "title" \notin DOMAIN arguments
          THEN ToolRaise(list.state, cache)
          ELSE After(<<Call("create_task", env.task)>>,
            IF ~env.task.ok THEN ToolRaise(list.state, cache)
            ELSE LET reg == register_task_list(list.state, list.out)
                     masked == mask_task(reg.state, env.task.item, list.out)
                 IN  ToolReturn(FALSE, masked.state, cache,
                                [task_list_id |-> reg.alias], <<masked.out>>)))

\* The external update answers with the task it was asked to patch.
_update_task(s, cache, arguments, env) ==
    LET list == _resolve_task_list_id(s, Get(arguments, "task_list_id", None),
                                      env.task_lists)
        task_id_alias == Get(arguments, "task_id", None)
    IN  After(list.calls,
        IF list.raised THEN ToolRaise(list.state, cache)
        ELSE IF Blank(task_id_alias) THEN ToolRaise(list.state, cache)
        ELSE
        LET resolved == resolve_task(list.state, list.out, task_id_alias)
            task_list_id == resolved[1]
            task_id == resolved[2]
        IN  IF BadDate(arguments, "due_date") THEN ToolRaise(list.state, cache)
            ELSE After(<<Call("update_task", env.task)>>,
              IF ~env.task.ok THEN ToolRaise(list.state, cache)
              ELSE LET task == [env.task.item EXCEPT !.id = task_id]
                       reg_list == register_task_list(list.state, task_list_id)
                       reg_task == register_task(reg_list.state, task_list_id, task.id)
                       masked == mask_task(reg_task.state, task, task_list_id)
                   IN  ToolReturn(FALSE, masked.state, cache,
                                  [task_list_id |-> reg_list.alias,
                                   task_id |-> reg_task.alias],
                                  <<masked.out>>)))

\* The calendar _list_events falls back to when none is visible.
DefaultPrimaryCalendar ==
    [id |-> "primary", name |-> "Primary calendar", primary |-> TRUE,
     access_role |-> "owner", readonly |-> FALSE]

\* The loop body of _list_events for one event of one calendar.
AnnotateEvent(event, calendar) ==
    LET readonly == \/ Get(calendar, "readonly", FALSE)
                    \/ is_readonly_access(Get(calendar, "access_role", None))
    IN  ("calendar_id" :> Get(calendar, "id", "primary"))
        @@ ("calendar" :> calendar.name)
        @@ ("readonly" :> (readonly \/ Get(event, "readonly", FALSE)))
        @@ event

\* The events of all calendars in calendar order; a calendar whose listing
\* fails (env.events_fail) is skipped.
RECURSIVE CollectEvents(_, _)
CollectEvents(calendars, env) ==
    IF calendars = <<>> THEN <<>>
    ELSE LET calendar == Head(calendars)
             mine == IF Get(calendar, "id", "primary") \in env.events_fail
                     THEN <<>>
                     ELSE [i \in 1..Len(env.events) |->
                              AnnotateEvent(env.events[i], calendar)]
         IN  mine \o CollectEvents(Tail(calendars), env)

\* What list_events answers for one calendar.
EventsReply(calendar, env) ==
    IF Get(calendar, "id", "primary") \in env.events_fail
    THEN [ok |-> FALSE, items |-> <<>>]
    ELSE [ok |-> TRUE, items |-> env.events]

\* The calls of list_events the loop of _list_events makes, one per calendar.
EventCalls(calendars, env) ==
    [i \in 1..Len(calendars) |-> Call("list_events", EventsReply(calendars[i], env))]

\* ToolExecutor._event_start_timestamp: 0 when start is missing.
_event_start_timestamp(event) == Get(event, "start", 0)

\* sorted(events, key = _event_start_timestamp): a stable insertion.
RECURSIVE InsertByStart(_, _)
InsertByStart(event, ordered) ==
    IF ordered = <<>> THEN <<event>>
    ELSE IF _event_start_timestamp(Head(ordered)) <= _event_start_timestamp(event)
    THEN <<Head(ordered)>> \o InsertByStart(event, Tail(ordered))
    ELSE <<event>> \o ordered

RECURSIVE SortedByStart(_)
SortedByStart(events) ==
    IF events = <<>> THEN <<>>
    ELSE InsertByStart(events[Len(events)],
                       SortedByStart(SubSeq(events, 1, Len(events) - 1)))

_list_events(s, cache, t, arguments, env) ==
    IF Blank(Get(arguments, "start_date", None))
       \/ Blank(Get(arguments, "end_date", None))
    THEN ToolRaise(s, cache)
    ELSE IF BadDate(arguments, "start_date") \/ BadDate(arguments, "end_date")
    THEN ToolRaise(s, cache)
    ELSE LET visible == visible_calendars(cache, t, env.calendars)
             calendars == IF visible.raised \/ visible.out = <<>>
                          THEN <<DefaultPrimaryCalendar>>
                          ELSE visible.out
             ordered == SortedByStart(CollectEvents(calendars, env))
             masked == mask_events(s, ordered, None)
         IN  After(ListCalendarsCalls(visible.reads, env.calendars)
                       \o EventCalls(calendars, env),
                   ToolReturn(FALSE, masked.state, visible.cache, EmptyMap,
                              masked.out))

\* ToolExecutor._argument: the first of keys that is present and not blank.
RECURSIVE _argument(_, _)
_argument(arguments, keys) ==
    IF keys = <<>> THEN None
    ELSE IF ~Blank(Get(arguments, Head(keys), None)) THEN arguments[Head(keys)]
    ELSE _argument(arguments, Tail(keys))

_create_event(s, cache, arguments, env) ==
    IF Blank(_argument(arguments, <<"summary", "title", "name">>))
    THEN ToolRaise(s, cache)
    ELSE IF \/ BadDate(arguments, "start_datetime")
            \/ /\ Blank(Get(arguments, "start_datetime", None))
               /\ ~Blank(Get(arguments, "end_datetime", None))
    THEN ToolRaise(s, cache)
    ELSE After(<<Call("create_event", env.event)>>,
      IF ~env.event.ok THEN ToolRaise(s, cache)
      ELSE LET event == ("calendar_id" :> "primary") @@ env.event.item
               masked == mask_event(s, event, "primary")
           IN  ToolReturn(FALSE, masked.state, cache, EmptyMap, <<masked.out>>))

\* The external update answers with the event it was asked to update.
_update_event(s, cache, t, arguments, env) ==
    LET event_id == Get(arguments, "event_id", None) IN
    IF Blank(event_id) THEN ToolRaise(s, cache)
    ELSE
    LET resolved == resolve_event(s, event_id, "primary")
        calendar_id == resolved[1]
        resolved_event_id == resolved[2]
        flagged == event_is_readonly(s, event_id)
        shared == is_readonly(cache, t, env.calendars, calendar_id)
        cache_after == IF flagged THEN cache ELSE shared.cache
        listing == IF flagged THEN <<>>
                   ELSE ListCalendarsCalls(shared.reads, env.calendars)
    IN  After(listing,
        IF flagged \/ shared.raised \/ shared.out THEN ToolRaise(s, cache_after)
        ELSE IF BadDate(arguments, "start_datetime") THEN ToolRaise(s, cache_after)
        ELSE After(<<Call("update_event", env.event)>>,
          IF ~env.event.ok THEN ToolRaise(s, cache_after)
          ELSE LET event == ("calendar_id" :> calendar_id)
                            @@ [env.event.item EXCEPT !.id = resolved_event_id]
                   masked == mask_event(s, event, calendar_id)
               IN  ToolReturn(FALSE, masked.state, cache_after, EmptyMap,
                              <<masked.out>>)))

\* ToolExecutor.execute: connection is TRUE when a GoogleConnection is passed.
execute(name, arguments, connection, s, cache, t, env) ==
    IF ~connection THEN ToolRaise(s, cache)
    ELSE CASE name = "list_task_lists" -> _list_task_lists(s, cache, env)
           [] name = "list_tasks" -> _list_tasks(s, cache, arguments, env)
           [] name = "create_task" -> _create_task(s, cache, arguments, env)
           [] name = "update_task" -> _update_task(s, cache, arguments, env)
           [] name = "list_events" -> _list_events(s, cache, t, arguments, env)
           [] name = "create_event" -> _create_event(s, cache, arguments, env)
           [] name = "update_event" -> _update_event(s, cache, t, arguments, env)
           [] OTHER -> ToolReturn(FALSE, s, cache, [error |-> "Unknown tool"], <<>>)

-----------------------------------------------------------------------------
(* The alias table of one session under its operations *)

\* What a registration is about: the type and the identifying fields.
IdentityOf(payload) ==
    CASE payload.type = "calendar" -> <<"calendar", payload.calendar_id>>
      [] payload.type = "task_list" -> <<"task_list", payload.task_list_id>>
      [] payload.type = "task" ->
            <<"task", payload.task_list_id, payload.task_id>>
      [] payload.type = "event" ->
            <<"event", payload.event_id, payload.calendar_id>>

\* Input items of the mask_* operations.
CalendarItems == [id : Ids, access_role : {"owner"}]
TaskListItems == [id : Ids, title : {"Home"}]
TaskItems == [id : Ids, title : {"Milk"}]
EventItems ==
    [id : Ids, calendar_id : {"x"}]
    \cup [id : {"x"}, calendar_id : {None}, readonly : {TRUE}]

InitAlias ==
    /\ alias_state = EmptyAliasState
    /\ issued = {}
    /\ was_reset = FALSE
    /\ _sessions = EmptyMap
    /\ heap = EmptyMap
    /\ lastOp = [op |-> "init"]
    /\ calendar_cache = EmptyCalendarCache
    /\ now = 1
    /\ user = None
    /\ task_lists_cache = EmptyTaskListCache
    /\ _data = EmptyMap
    /\ file = NoFile
    /\ _lock = None
    /\ threads = IdleThreads
    /\ last_write = "none"
    /\ google = None

\* One register_* call with the given payload.
RegisterCall(reg, payload) ==
    /\ reg.state.counter <= MaxAliases
    /\ alias_state' = reg.state
    /\ issued' = issued \cup {<<IdentityOf(payload), reg.alias>>}
    /\ lastOp' = [op |-> "register", payload |-> payload, alias |-> reg.alias,
                  known |-> \E p \in issued : p[1] = IdentityOf(payload)]
    /\ UNCHANGED <<was_reset, storeVars, sessionVars>>

RegisterCalendar ==
    \E c \in Ids, r \in AccessRoles :
        RegisterCall(register_calendar(alias_state, c, r), CalendarPayload(c, r))

RegisterTaskList ==
    \E l \in Ids :
        RegisterCall(register_task_list(alias_state, l), TaskListPayload(l))

RegisterTask ==
    \E l \in Ids, t \in Ids :
        RegisterCall(register_task(alias_state, l, t), TaskPayload(l, t))

RegisterEvent ==
    \E e \in Ids, c \in Ids, ro \in BOOLEAN :
        RegisterCall(register_event(alias_state, e, c, ro), EventPayload(e, c, ro))

\* One mask_* call: res is what the operation computed, payloads[i] the
\* payload its i-th item stands for.
MaskCall(name, res, payloads) ==
    /\ res.state.counter <= MaxAliases
    /\ alias_state' = res.state
    /\ issued' = issued \cup
            {<<IdentityOf(payloads[i]), res.out[i].id>> : i \in 1..Len(payloads)}
    /\ lastOp' = [op |-> name, out |-> res.out]
    /\ UNCHANGED <<was_reset, storeVars, sessionVars>>

MaskCalendars ==
    \E items \in SeqsUpTo(CalendarItems, MaxItems) :
        MaskCall("mask_calendars", mask_calendars(alias_state, items),
                 [i \in 1..Len(items) |->
                    CalendarPayload(items[i].id, items[i].access_role)])

MaskTaskLists ==
    \E items \in SeqsUpTo(TaskListItems, MaxItems) :
        MaskCall("mask_task_lists", mask_task_lists(alias_state, items),
                 [i \in 1..Len(items) |-> TaskListPayload(items[i].id)])

MaskTasks ==
    \E items \in SeqsUpTo(TaskItems, MaxItems), l \in Ids :
        MaskCall("mask_tasks", mask_tasks(alias_state, items, l),
                 [i \in 1..Len(items) |-> TaskPayload(l, items[i].id)])

MaskEvents ==
    \E items \in SeqsUpTo(EventItems, MaxItems), c \in {"1", None} :
        MaskCall("mask_events", mask_events(alias_state, items, c),
                 [i \in 1..Len(items) |->
                    EventPayload(items[i].id, TargetCalendar(items[i], c),
                                 Get(items[i], "readonly", FALSE))])

\* AliasService.reset that leaves the reverse map in place.
ResetKeepsReverse ==
    /\ alias_state' = [counter |-> 0, aliases |-> EmptyMap,
                       reverse |-> alias_state.reverse]
    /\ issued' = {}
    /\ was_reset' = TRUE
    /\ lastOp' = [op |-> "reset"]
    /\ UNCHANGED <<storeVars, sessionVars>>

\* AliasService.reset
Reset ==
    /\ alias_state' = EmptyAliasState
    /\ issued' = {}
    /\ was_reset' = TRUE
    /\ lastOp' = [op |-> "reset"]
    /\ UNCHANGED <<storeVars, sessionVars>>

NextAlias ==
    \/ RegisterCalendar
    \/ RegisterTaskList
    \/ RegisterTask
    \/ RegisterEvent
    \/ MaskCalendars
    \/ MaskTaskLists
    \/ MaskTasks
    \/ MaskEvents
    \/ Reset

SpecAlias == InitAlias /\ [][NextAlias]_vars

-----------------------------------------------------------------------------
(* Properties of the alias table *)

\* The identities registered since the last reset.
IssuedIdentities == {p[1] : p \in issued}

\* C1 (alias idempotence): since the last reset, every registration of one
\* identity (type + identifying fields, whatever its access_role or readonly
\* flag) returned the same alias, and only the first registration of an
\* identity advanced the counter: the counter equals the number of identities.
C1_AliasIdempotence ==
    /\ \A p, q \in issued : p[1] = q[1] => p[2] = q[2]
    /\ alias_state.counter = Cardinality(IssuedIdentities)
    /\ (lastOp.op = "register" /\ lastOp.known) =>
            \E p \in issued : p[1] = IdentityOf(lastOp.payload) /\ p[2] = lastOp.alias

\* An event is registered a second time with the other readonly flag.
C1_Witness ==
    /\ lastOp.op = "register"
    /\ lastOp.known
    /\ lastOp.payload.type = "event"
    /\ alias_state.aliases[lastOp.alias].readonly # lastOp.payload.readonly

\* C2 (alias uniqueness): two registrations that differ in type or in an
\* identifying field never returned the same alias.
C2_AliasUniqueness ==
    \A p, q \in issued : p[1] # q[1] => p[2] # q[2]

\* A calendar and a task list with the same real id are both registered, and
\* so are two events that differ in the calendar only.
C2_Witness ==
    \/ \E p, q \in issued :
          p[1][1] = "calendar" /\ q[1][1] = "task_list" /\ p[1][2] = q[1][2]
    \/ \E p, q \in issued :
          /\ p[1][1] = "event" /\ q[1][1] = "event"
          /\ p[1][2] = q[1][2] /\ p[1][3] # q[1][3]

\* The alias a resolves to the identity k in the alias table s.
ResolvesTo(s, a, k) ==
    CASE k[1] = "calendar" -> resolve_calendar(s, a) = k[2]
      [] k[1] = "task_list" -> resolve_task_list(s, a) = k[2]
      [] k[1] = "task" ->
            \A anyList \in Strings \cup {None} :
                resolve_task(s, anyList, a) = <<k[2], k[3]>>
      [] k[1] = "event" ->
            \A default \in {"primary", "x"} :
                resolve_event(s, a, default) = <<k[3], k[2]>>

\* C3 (round trip): every alias returned by a registration since the last
\* reset resolves to the real identifying fields it was registered with.
C3_RoundTrip ==
    \A p \in issued : ResolvesTo(alias_state, p[2], p[1])

\* A task is registered under the alias "2" after another resource.
C3_Witness ==
    /\ alias_state.counter = 2
    /\ \E p \in issued : p[1][1] = "task" /\ p[2] = "2" /\ p[1][2] = "1"

\* C4 as claimed (passthrough): in a session without a reset so far,
\* resolve_calendar returns unchanged every string that was never registered
\* as a calendar id, and resolve_task_list likewise.
C4_PassthroughAsClaimed ==
    ~was_reset =>
        \A s \in Strings :
            /\ <<"calendar", s>> \notin IssuedIdentities
                    => resolve_calendar(alias_state, s) = s
            /\ <<"task_list", s>> \notin IssuedIdentities
                    => resolve_task_list(alias_state, s) = s

\* C4 (passthrough, amended): resolve_calendar returns unchanged every string
\* that is not an alias issued for a calendar since the last reset, and
\* resolve_task_list every string that is not an alias issued for a task list;
\* the resolve operations are total (none raises).
C4_Passthrough ==
    \A s \in Strings :
        /\ (~\E p \in issued : p[1][1] = "calendar" /\ p[2] = s)
                => resolve_calendar(alias_state, s) = s
        /\ (~\E p \in issued : p[1][1] = "task_list" /\ p[2] = s)
                => resolve_task_list(alias_state, s) = s
        /\ \A l \in Strings : resolve_task(alias_state, l, s) \in Seq(Strings)
        /\ resolve_event(alias_state, s, "primary") \in Seq(Strings \cup {"primary"})

\* The string "1" is the alias of an event and "2" that of a task list, and
\* resolve_calendar passes both through, like the unknown string "zz".
C4_Witness ==
    /\ \E p \in issued : p[1][1] = "event" /\ p[2] = "1"
    /\ \E p \in issued : p[1][1] = "task_list" /\ p[2] = "2"
    /\ resolve_calendar(alias_state, "1") = "1"
    /\ resolve_calendar(alias_state, "2") = "2"
    /\ resolve_calendar(alias_state, "zz") = "zz"

\* C5 (alias-table invariant): reverse is the inverse of aliases under the
\* dedup key, no two aliases share a key, and the aliases are exactly
\* "1"..str(counter).
C5_AliasTableInvariant ==
    LET aliases == alias_state.aliases
        reverse == alias_state.reverse
    IN  /\ \A a \in DOMAIN aliases :
              /\ _payload_key(aliases[a]) \in DOMAIN reverse
              /\ reverse[_payload_key(aliases[a])] = a
        /\ \A k \in DOMAIN reverse :
              /\ reverse[k] \in DOMAIN aliases
              /\ _payload_key(aliases[reverse[k]]) = k
        /\ \A a, b \in DOMAIN aliases :
              _payload_key(aliases[a]) = _payload_key(aliases[b]) => a = b
        /\ alias_state.counter = Cardinality(DOMAIN aliases)
        /\ DOMAIN aliases = {ToString(n) : n \in 1..alias_state.counter}

\* The table holds two aliases again after a reset.
C5_Witness ==
    /\ was_reset
    /\ alias_state.counter = 2
    /\ lastOp.op \in {"mask_events", "mask_tasks"}

\* C6 (alias stability): across every step that is not a reset, an alias
\* issued for an identity still resolves to that identity and is not issued
\* for another identity.
C6_AliasStability ==
    [][lastOp'.op # "reset" =>
          \A p \in issued :
              /\ ResolvesTo(alias_state', p[2], p[1])
              /\ \A q \in issued' : q[2] = p[2] => q[1] = p[1]]_vars

\* Alias "1" still stands for its calendar after a later registration.
C6_Witness ==
    /\ alias_state.counter = 2
    /\ lastOp.op = "register"
    /\ lastOp.alias = "2"
    /\ \E p \in issued : p[2] = "1" /\ p[1][1] = "calendar"
    /\ resolve_calendar(alias_state, "1") \in Ids

\* C37: after register_event or mask_event was called for an event with
\* readonly flag r, event_is_readonly of the returned alias is r, whatever
\* registrations of the same event came before.
C37_ReadonlyFlagCurrent ==
    /\ (lastOp.op = "register" /\ lastOp.payload.type = "event")
       => event_is_readonly(alias_state, lastOp.alias) = lastOp.payload.readonly
    /\ lastOp.op = "mask_events"
       => \A i \in 1..Len(lastOp.out) :
             event_is_readonly(alias_state, lastOp.out[i].id)
                 = lastOp.out[i].readonly

-----------------------------------------------------------------------------
(* The tool dispatcher of one connected session *)

\* Real Google identifiers of the account.
GoogleTaskListIds == {"L1", "L2"}
GoogleTaskIds == {"T1", "T2"}
GoogleCalendarIds == {"primary", "calB"}
GoogleEventIds == {"E1", "E2"}
GoogleIds ==
    GoogleTaskListIds \cup GoogleTaskIds \cup GoogleCalendarIds \cup GoogleEventIds

\* An answer of the external source: a failure, or a list of items.
Failure == [ok |-> FALSE, items |-> <<>>]
Answer(items) == [ok |-> TRUE, items |-> items]
Failed == [ok |-> FALSE]
Item(item) == [ok |-> TRUE, item |-> item]

\* What GoogleTasksService.list_task_lists may answer.
TaskListReplies ==
    {Failure, Answer(<<>>)}
    \cup {Answer(<<[id |-> "L1", title |-> "Home", name |-> "Home"]>>)}

\* What GoogleTasksService.list_tasks may answer (map_task items).
TaskReplies ==
    {Failure}
    \cup {Answer(items) :
            items \in SeqsUpTo([id : GoogleTaskIds, title : {"Milk"}], MaxItems)}

\* What create_task / update_task may answer.
TaskItemReplies == {Failed, Item([id |-> "T1", title |-> "Milk"])}

\* What GoogleCalendarService.list_calendars may answer.
PrimaryCalendar ==
    [id |-> "primary", name |-> "Me", primary |-> TRUE, access_role |-> "owner"]
SharedCalendar ==
    [id |-> "calB", name |-> "Team", primary |-> FALSE, access_role |-> "reader"]
CalendarReplies ==
    {Failure, Answer(<<PrimaryCalendar, SharedCalendar>>), Answer(<<SharedCalendar>>)}

\* What GoogleCalendarService.list_events may answer for a calendar (map_event
\* items; calendar_id is set by the caller).
EventReplies ==
    SeqsUpTo({[id |-> "E1", summary |-> "Standup", start |-> 2],
              [id |-> "E2", summary |-> "Lunch", start |-> 1]}, MaxItems)

EventItemReplies == {Failed, Item([id |-> "E1", summary |-> "Standup", start |-> 2])}

\* The answers the external sources give during one tool call.
NoEnv ==
    [task_lists |-> Failure, tasks |-> Failure, task |-> Failed,
     calendars |-> Failure, events |-> <<>>, events_fail |-> {}, event |-> Failed]

\* Argument values a client may send where an alias is expected: an alias, a
\* real id, or nothing.
ListArgs == {None, "1", "L1"}
TaskArgs == {None, "1", "2", "T1"}
EventArgs == {None, "1", "2", "E1"}
DateArgs == {None, "2024-05-01", "bad"}

\* list_task_lists is asked only when the call names no task list.
ListRepliesFor(l) == IF l = None THEN TaskListReplies ELSE {Failure}

\* A dict without the entries whose value is None.
Args(bag) == [k \in {f \in DOMAIN bag : bag[f] # None} |-> bag[k]]

InitTools ==
    /\ alias_state = EmptyAliasState
    /\ issued = {}
    /\ was_reset = FALSE
    /\ _sessions = EmptyMap
    /\ heap = EmptyMap
    /\ lastOp = [op |-> "init"]
    /\ calendar_cache = EmptyCalendarCache
    /\ now = 1
    /\ user = None
    /\ task_lists_cache = EmptyTaskListCache
    /\ _data = EmptyMap
    /\ file = NoFile
    /\ _lock = None
    /\ threads = IdleThreads
    /\ last_write = "none"
    /\ google = None

\* One ToolExecutor.execute call.
ExecuteCall(name, arguments, connection, env) ==
    \E ret \in {execute(name, arguments, connection, alias_state,
                         calendar_cache, now, env)} :
        /\ ret.alias_state.counter <= MaxAliases
        /\ alias_state' = ret.alias_state
        /\ calendar_cache' = ret.calendar_cache
        /\ lastOp' = [op |-> "execute", name |-> name, raised |-> ret.raised,
                      result |-> ret.result]
        /\ UNCHANGED <<issued, was_reset, storeVars, now, reminderVars>>

ExecuteListTaskLists ==
    \E lists \in TaskListReplies :
        ExecuteCall("list_task_lists", EmptyMap, TRUE,
                    [NoEnv EXCEPT !.task_lists = lists])

ExecuteListTasks ==
    \E l \in ListArgs, d \in DateArgs, tasks \in TaskReplies :
      \E lists \in ListRepliesFor(l) :
        ExecuteCall("list_tasks", Args([task_list_id |-> l, start_date |-> d]), TRUE,
                    [NoEnv EXCEPT !.task_lists = lists, !.tasks = tasks])

ExecuteCreateTask ==
    \E l \in ListArgs, title \in {None, "Milk"}, task \in TaskItemReplies :
      \E lists \in ListRepliesFor(l) :
        ExecuteCall("create_task", Args([task_list_id |-> l, title |-> title]), TRUE,
                    [NoEnv EXCEPT !.task_lists = lists, !.task = task])

ExecuteUpdateTask ==
    \E l \in ListArgs, a \in TaskArgs, task \in TaskItemReplies :
      \E lists \in ListRepliesFor(l) :
        ExecuteCall("update_task",
                    Args([task_list_id |-> l, task_id |-> a, status |-> "completed"]),
                    TRUE, [NoEnv EXCEPT !.task_lists = lists, !.task = task])

ExecuteListEvents ==
    \E d \in DateArgs, calendars \in CalendarReplies, events \in EventReplies,
       fail \in {{}, {"primary"}} :
        ExecuteCall("list_events", Args([start_date |-> d, end_date |-> d]), TRUE,
                    [NoEnv EXCEPT !.calendars = calendars, !.events = events,
                                  !.events_fail = fail])

ExecuteCreateEvent ==
    \E title \in {None, "Standup"}, d \in DateArgs, event \in EventItemReplies :
        ExecuteCall("create_event", Args([title |-> title, start_datetime |-> d]),
                    TRUE, [NoEnv EXCEPT !.event = event])

ExecuteUpdateEvent ==
    \E a \in EventArgs, calendars \in CalendarReplies, event \in EventItemReplies :
        ExecuteCall("update_event", Args([event_id |-> a, title |-> "Standup"]), TRUE,
                    [NoEnv EXCEPT !.calendars = calendars, !.event = event])

ExecuteUnknownTool ==
    ExecuteCall("delete_everything", EmptyMap, TRUE, NoEnv)

ExecuteNotConnected ==
    \E name \in {"list_tasks", "list_events"} :
        ExecuteCall(name, EmptyMap, FALSE, NoEnv)

NextTools ==
    \/ ExecuteListTaskLists
    \/ ExecuteListTasks
    \/ ExecuteCreateTask
    \/ ExecuteUpdateTask
    \/ ExecuteListEvents
    \/ ExecuteCreateEvent
    \/ ExecuteUpdateEvent
    \/ ExecuteUnknownTool
    \/ ExecuteNotConnected

SpecTools == InitTools /\ [][NextTools]_vars

IdFields == {"id", "task_list_id", "task_id", "calendar_id"}

\* The values of the identifier fields of one dict.
IdValues(d) == {d[f] : f \in IdFields \cap DOMAIN d}

\* The values of the identifier fields anywhere in a tool result.
ResultIds(result) ==
    IdValues(result.fields)
    \cup UNION {IdValues(result.items[i]) : i \in 1..Len(result.items)}

\* C7: whenever ToolExecutor.execute returns a result, every identifier field
\* (id, task_list_id, task_id, calendar_id) of the result, at the top level and
\* in every returned item, holds an alias of the session's alias table and is
\* not a real Google calendar, task-list, task or event id.
C7_NoRealIdInToolResults ==
    (lastOp.op = "execute" /\ ~lastOp.raised) =>
        \A v \in ResultIds(lastOp.result) :
            v \in DOMAIN alias_state.aliases /\ v \notin GoogleIds

\* An update_task call returned a task-list alias, a task alias and the masked
\* task.
C7_Witness ==
    /\ lastOp.op = "execute"
    /\ ~lastOp.raised
    /\ lastOp.name = "update_task"
    /\ Cardinality(ResultIds(lastOp.result)) >= 2

-----------------------------------------------------------------------------
(* backend/app/reminder_serialization.py, persistent_reminder_store.py *)

\* datetime.isoformat(), None staying None
isoformat(t) == IF t = NoTime THEN None ELSE ToString(t)

serialize_reminder(reminder) ==
    [reminder EXCEPT !.created_at = isoformat(@), !.fired_at = isoformat(@)]

SerializeAll(reminders) ==
    [i \in 1..Len(reminders) |-> serialize_reminder(reminders[i])]

\* dict.setdefault(owner, [])
SetDefault(data, owner) ==
    IF owner \in DOMAIN data THEN data ELSE (owner :> <<>>) @@ data

\* PersistentReminderStore.all: copies of the owner's reminders.
all(data, owner) == IF owner \in DOMAIN data THEN data[owner] ELSE <<>>

\* What _persist writes when the write succeeds.
Persisted(data) ==
    [readable |-> TRUE, payload |-> "object", owners_kind |-> "mapping",
     owners |-> [o \in DOMAIN data |->
                    [list |-> TRUE, items |-> SerializeAll(data[o])]]]

\* A _persist that returns without writing.
FilesNeverWritten(data, old, write_ok) == {old}

\* What the file may hold after _persist: the new content, or, when write_text
\* fails, the old content or a file cut short.
FilesAfterPersist(data, old, write_ok) ==
    IF write_ok THEN {Persisted(data)} ELSE {old, NoFile}

\* How the most recent file write ended; "unwritten" when it failed and no
\* write has succeeded so far.
WriteOutcome(write_ok, before) ==
    IF write_ok THEN "ok"
    ELSE IF before \in {"none", "unwritten"} THEN "unwritten" ELSE "failed"

-----------------------------------------------------------------------------
(* backend/app/reminders.py *)

VALID_TRIGGERS == {"enter_car", "exit_car"}

TASKLIST_CACHE_MINUTES == 60

\* str.strip() on the texts a client sends here.
strip(value) ==
    CASE value = "  " -> ""
      [] value = " milk " -> "milk"
      [] value = " Exit Car " -> "Exit Car"
      [] value = "quota exceeded " -> "quota exceeded"
      [] OTHER -> value

\* str.lower()
lower(value) == IF value = "Exit Car" THEN "exit car" ELSE value

\* str.replace(" ", "_")
underscored(value) == IF value = "exit car" THEN "exit_car" ELSE value

\* a or b
Either(a, b) == IF Blank(a) THEN b ELSE a

_require_string(value) ==
    IF value # None /\ strip(value) # ""
    THEN [raised |-> FALSE, out |-> strip(value)]
    ELSE [raised |-> TRUE, out |-> None]

\* A _require_trigger that returns the normalised text without looking it up
\* in VALID_TRIGGERS.
TriggerUnchecked(raw) ==
    IF raw # None /\ strip(raw) # ""
    THEN [raised |-> FALSE, out |-> underscored(lower(strip(raw)))]
    ELSE [raised |-> TRUE, out |-> None]

_require_trigger(raw) ==
    LET normalized == underscored(lower(strip(raw)))
        entering == IF normalized \in {"enter", "entering_car", "in_car"}
                    THEN "enter_car" ELSE normalized
        leaving == IF entering \in {"exit", "leaving_car", "out_car", "out_of_car"}
                   THEN "exit_car" ELSE entering
    IN  IF raw # None /\ strip(raw) # "" /\ leaving \in VALID_TRIGGERS
        THEN [raised |-> FALSE, out |-> leaving]
        ELSE [raised |-> TRUE, out |-> None]

\* An owner key that ignores the logged-in user.
OwnerKeyOfSession(session_id, session_user) == session_id

_owner_key(session_id, session_user) ==
    IF session_user # None THEN session_user ELSE session_id

\* TriggerReminder(id, text, trigger_type, status="pending", created_at)
TriggerReminder(id, text, trigger_type, t) ==
    [id |-> id, text |-> text, trigger_type |-> trigger_type,
     status |-> "pending", created_at |-> t, fired_at |-> NoTime,
     google_task_id |-> None, google_task_alias |-> None,
     task_list_id |-> None, task_error |-> None]

\* A cached read that hands out the lists whatever their age.
CachedNeverExpires(cache, t) ==
    [cache |-> cache, out |-> cache.task_lists, calls |-> 0]

\* GoogleTasksService.cached_task_lists; calls counts the calls of
\* list_task_lists.
cached_task_lists(cache, t) ==
    IF cache.task_lists # <<>> /\ cache.expires_at # NoTime /\ cache.expires_at > t
    THEN [cache |-> cache, out |-> cache.task_lists, calls |-> 0]
    ELSE [cache |-> cache, out |-> <<>>, calls |-> 0]

\* GoogleTasksService.prefetch_task_lists with what list_task_lists answers.
prefetch_task_lists(cache, t, lists) ==
    IF ~lists.ok THEN [raised |-> TRUE, cache |-> cache, out |-> <<>>, calls |-> 1]
    ELSE [raised |-> FALSE,
          cache |-> [task_lists |-> lists.items,
                     expires_at |-> t + TASKLIST_CACHE_MINUTES],
          out |-> lists.items, calls |-> 1]

\* ReminderService._default_task_list_id; out is None when no list exists.
_default_task_list_id(cache, s, t, lists) ==
    IF cache.task_lists # <<>>
    THEN [raised |-> FALSE, cache |-> cache,
          state |-> register_task_list(s, cache.task_lists[1].id).state,
          out |-> cache.task_lists[1].id, calls |-> 0]
    ELSE LET fetched == prefetch_task_lists(cache, t, lists)
         IN  IF fetched.raised
             THEN [raised |-> TRUE, cache |-> cache, state |-> s, out |-> None,
                   calls |-> fetched.calls]
             ELSE IF fetched.out # <<>>
             THEN [raised |-> FALSE, cache |-> fetched.cache,
                   state |-> register_task_list(s, fetched.out[1].id).state,
                   out |-> fetched.out[1].id, calls |-> fetched.calls]
             ELSE [raised |-> FALSE, cache |-> fetched.cache, state |-> s,
                   out |-> None, calls |-> fetched.calls]

\* What _create_google_task hands back: the ids on success, the error text on
\* a raise; created tells whether the external create_task call succeeded and
\* calls how many times create_task was called.
TaskOutcome(raised, error, cache, s, task_id, task_alias, task_list_id, calls) ==
    [raised |-> raised, error |-> error, cache |-> cache, state |-> s,
     task_id |-> task_id, task_alias |-> task_alias,
     task_list_id |-> task_list_id, created |-> ~raised, calls |-> calls]

\* str(exc) of what the external sources raise.
ListsError == "upstream unavailable"
CreateError == "quota exceeded "

\* A task creation that calls create_task a second time when the first call
\* fails.
CreateTaskRetrying(connection, cache, s, t, lists, created) ==
    IF ~connection
    THEN TaskOutcome(TRUE, "Google is not connected; task creation skipped.",
                     cache, s, None, None, None, 0)
    ELSE LET list == _default_task_list_id(cache, s, t, lists)
         IN  IF list.raised
             THEN TaskOutcome(TRUE, ListsError, list.cache,
                              list.state, None, None, None, 0)
             ELSE IF list.out = None
             THEN TaskOutcome(TRUE, "No Google task lists are available.",
                              list.cache, list.state, None, None, None, 0)
             ELSE IF ~created.ok
             THEN TaskOutcome(TRUE, CreateError, list.cache,
                              list.state, None, None, None, 2)
             ELSE LET reg == register_task(list.state, list.out, created.item.id)
                  IN  TaskOutcome(FALSE, None, list.cache, reg.state,
                                  created.item.id, reg.alias, list.out, 1)

\* ReminderService._create_google_task; lists and created are what the
\* external list_task_lists and create_task answer.
_create_google_task(connection, cache, s, t, lists, created) ==
    IF ~connection
    THEN TaskOutcome(TRUE, "Google is not connected; task creation skipped.",
                     cache, s, None, None, None, 0)
    ELSE LET list == _default_task_list_id(cache, s, t, lists)
         IN  IF list.raised
             THEN TaskOutcome(TRUE, ListsError, list.cache,
                              list.state, None, None, None, 0)
             ELSE IF list.out = None
             THEN TaskOutcome(TRUE, "No Google task lists are available.",
                              list.cache, list.state, None, None, None, 0)
             ELSE IF ~created.ok
             THEN TaskOutcome(TRUE, CreateError, list.cache,
                              list.state, None, None, None, 1)
             ELSE LET reg == register_task(list.state, list.out, created.item.id)
                  IN  TaskOutcome(FALSE, None, list.cache, reg.state,
                                  created.item.id, reg.alias, list.out, 1)

\* A loop test that forgets the status.
MatchesAnyStatus(reminder, normalized_trigger) ==
    reminder.trigger_type = normalized_trigger

\* A loop test that forgets the trigger type.
MatchesAnyTrigger(reminder, normalized_trigger) == reminder.status = "pending"

\* The test of the loop of _trigger_reminders.
Matches(reminder, normalized_trigger) ==
    /\ reminder.trigger_type = normalized_trigger
    /\ reminder.status = "pending"

\* A loop body that leaves the reminder pending when no task was created.
FireOnlyWithTask(reminder, t, made) ==
    IF made.raised THEN [reminder EXCEPT !.task_error = made.error]
    ELSE [reminder EXCEPT !.status = "fired", !.fired_at = t,
                          !.google_task_id = made.task_id,
                          !.google_task_alias = made.task_alias,
                          !.task_list_id = made.task_list_id,
                          !.task_error = None]

\* The loop body of _trigger_reminders for one matching reminder.
FireReminder(reminder, t, made) ==
    LET fired == [reminder EXCEPT !.status = "fired", !.fired_at = t]
    IN  IF made.raised THEN [fired EXCEPT !.task_error = made.error]
        ELSE [fired EXCEPT !.google_task_id = made.task_id,
                           !.google_task_alias = made.task_alias,
                           !.task_list_id = made.task_list_id,
                           !.task_error = None]

\* ReminderService._trigger_reminders from position i on.  acc carries the
\* live list, the triggered reminders, the session's cache and alias table
\* the ids of the reminders whose task was created and, per create_task
\* call, the id of the reminder it was made for; env holds the connection,
\* the clock and the external answers, one per attempt.
RECURSIVE _trigger_reminders(_, _, _, _)
_trigger_reminders(acc, i, normalized_trigger, env) ==
    IF i > Len(acc.reminders) THEN acc
    ELSE IF ~Matches(acc.reminders[i], normalized_trigger)
    THEN _trigger_reminders(acc, i + 1, normalized_trigger, env)
    ELSE LET k == Len(acc.triggered) + 1
             made == _create_google_task(env.connection, acc.cache, acc.state,
                                         env.t, env.lists[k], env.created[k])
             reminder == FireReminder(acc.reminders[i], env.t, made)
         IN  _trigger_reminders(
                 [reminders |-> [acc.reminders EXCEPT ![i] = reminder],
                  triggered |-> Append(acc.triggered, reminder),
                  cache |-> made.cache,
                  state |-> made.state,
                  created |-> IF made.created
                              THEN acc.created \cup {reminder.id}
                              ELSE acc.created,
                  calls |-> acc.calls
                            \o [n \in 1..made.calls |-> reminder.id]],
                 i + 1, normalized_trigger, env)

-----------------------------------------------------------------------------
(* The reminder service of one session over one store *)

\* The session's id and the id its user gets at login.
SessionId == "s1"
UserId == "u1"

\* The id Google gives the n-th task it creates.
NewTaskId(n) == "T" \o ToString(n)

\* Every real id a reminder's task or task list can have.
RealReminderIds == GoogleTaskListIds \cup {NewTaskId(n) : n \in 1..MaxReminders}

\* All reminders of all owners.
AllReminders(data) ==
    UNION {{data[o][i] : i \in 1..Len(data[o])} : o \in DOMAIN data}

\* Tasks created so far.
TasksCreated(data) ==
    Cardinality({r \in AllReminders(data) : r.google_task_id # None})

\* uuid.uuid4() for the next reminder.
NewReminderId(data) == "r" \o ToString(Cardinality(AllReminders(data)) + 1)

\* What a client may send as text and as trigger.
TextInputs == {None, "  ", " milk "}
TriggerInputs == {" Exit Car ", "in_car", "tomorrow"}

\* What create_task answers at each attempt of a call: a failure, or the task
\* it created.
CreateReplies(answered) ==
    LET before == TasksCreated(_data)
    IN  [k \in DOMAIN answered |->
            IF answered[k]
            THEN Item([id |-> NewTaskId(before + k), title |-> "milk"])
            ELSE Failed]

ReminderReturn(op, raised, owner, trigger, connection, result, created, calls) ==
    [op |-> op, raised |-> raised, owner |-> owner, trigger |-> trigger,
     connection |-> connection, result |-> result, created |-> created,
     calls |-> calls]

\* What a call leaves behind, with the arguments the client sent.
Asked(arguments, ret) == ("arguments" :> arguments) @@ ret

InitReminders ==
    /\ alias_state = EmptyAliasState
    /\ issued = {}
    /\ was_reset = FALSE
    /\ _sessions = EmptyMap
    /\ heap = EmptyMap
    /\ lastOp = [op |-> "init"]
    /\ calendar_cache = EmptyCalendarCache
    /\ now = 1
    /\ user = None
    /\ task_lists_cache = EmptyTaskListCache
    /\ _data = EmptyMap
    /\ file = NoFile
    /\ _lock = None
    /\ threads = IdleThreads
    /\ last_write = "none"
    /\ google = None

\* POST /api/auth/login: the session gets a user.
Login ==
    /\ user = None
    /\ user' = UserId
    /\ lastOp' = [op |-> "login"]
    /\ UNCHANGED <<alias_state, issued, was_reset, storeVars,
                   calendar_cache, now,
                   task_lists_cache, _data, file, last_write, threadVars, google>>

\* ReminderService.schedule, with PersistentReminderStore.append and _persist.
Schedule ==
    \E text \in TextInputs, trigger_type \in TriggerInputs, write_ok \in BOOLEAN :
      LET arguments == Args([text |-> text, trigger_type |-> trigger_type])
          checked == _require_string(Either(Get(arguments, "text", None),
                                            Get(arguments, "title", None)))
          trigger == _require_trigger(Either(Get(arguments, "trigger_type", None),
                                             Get(arguments, "trigger", None)))
          owner == _owner_key(SessionId, user)
      IN  IF checked.raised \/ trigger.raised
          THEN /\ lastOp' = Asked(arguments,
                                 ReminderReturn("schedule", TRUE, owner, None,
                                                FALSE, <<>>, {}, <<>>))
               /\ UNCHANGED <<alias_state, issued, was_reset, storeVars,
                              calendar_cache, now,
                              reminderVars>>
          ELSE LET reminder == TriggerReminder(NewReminderId(_data), checked.out,
                                               trigger.out, now)
                   data == SetDefault(_data, owner)
               IN  /\ Cardinality(AllReminders(_data)) < MaxReminders
                   /\ _data' = [data EXCEPT ![owner] = Append(@, reminder)]
                   /\ file' \in FilesAfterPersist(_data', file, write_ok)
                   /\ last_write' = WriteOutcome(write_ok, last_write)
                   /\ lastOp' = Asked(arguments, ReminderReturn(
                          "schedule", ~write_ok, owner, trigger.out, FALSE,
                          IF write_ok THEN <<serialize_reminder(reminder)>>
                          ELSE <<>>, {}, <<>>))
                   /\ UNCHANGED <<alias_state, issued, was_reset, storeVars,
                                  calendar_cache,
                                  now, user, task_lists_cache, threadVars, google>>

\* ReminderService.list
List ==
    LET owner == _owner_key(SessionId, user)
    IN  /\ lastOp' = ReminderReturn("list", FALSE, owner, None, FALSE,
                                    SerializeAll(all(_data, owner)), {}, <<>>)
        /\ UNCHANGED <<alias_state, issued, was_reset, storeVars,
                       calendar_cache, now,
                       reminderVars>>

\* The reminders of the owner a fire call for the trigger can reach.
Reachable(owner, normalized_trigger) ==
    {i \in 1..Len(all(_data, owner)) :
        _data[owner][i].trigger_type = normalized_trigger}

\* ReminderService.fire, with PersistentReminderStore.mutate and _persist.
Fire ==
    \E trigger_type \in TriggerInputs, connection \in BOOLEAN, write_ok \in BOOLEAN :
      LET trigger == _require_trigger(trigger_type)
          owner == _owner_key(SessionId, user)
      IN  IF trigger.raised
          THEN /\ lastOp' = Asked([trigger_type |-> trigger_type],
                                 ReminderReturn("fire", TRUE, owner, None,
                                                connection, <<>>, {}, <<>>))
               /\ UNCHANGED <<alias_state, issued, was_reset, storeVars,
                              calendar_cache, now,
                              reminderVars>>
          ELSE
          LET attempts == 1..Cardinality(Reachable(owner, trigger.out))
              data == SetDefault(_data, owner)
          IN  \E lists \in [attempts -> IF connection THEN TaskListReplies
                                                     ELSE {Failure}] :
              \E answered \in [attempts -> IF connection THEN BOOLEAN ELSE {FALSE}] :
              \E acc \in {_trigger_reminders(
                             [reminders |-> data[owner], triggered |-> <<>>,
                              cache |-> task_lists_cache, state |-> alias_state,
                              created |-> {}, calls |-> <<>>],
                             1, trigger.out,
                             [connection |-> connection, t |-> now,
                              lists |-> lists,
                              created |-> CreateReplies(answered)])} :
                  /\ _data' = [data EXCEPT ![owner] = acc.reminders]
                  /\ alias_state' = acc.state
                  /\ task_lists_cache' = acc.cache
                  /\ file' \in FilesAfterPersist(_data', file, write_ok)
                  /\ last_write' = WriteOutcome(write_ok, last_write)
                  /\ lastOp' = Asked([trigger_type |-> trigger_type],
                         ReminderReturn(
                             "fire", ~write_ok, owner, trigger.out, connection,
                             IF write_ok THEN SerializeAll(acc.triggered)
                             ELSE <<>>, acc.created, acc.calls))
                  /\ UNCHANGED <<issued, was_reset, storeVars,
                                 calendar_cache, now, user,
                                 threadVars, google>>

NextReminders ==
    \/ Login
    \/ Schedule
    \/ List
    \/ Fire

SpecReminders == InitReminders /\ [][NextReminders]_vars

\* The reminders of the owner that are pending with the given trigger type.
IsPendingFor(reminder, trigger) ==
    reminder.status = "pending" /\ reminder.trigger_type = trigger

PendingPositions(data, owner, trigger) ==
    {i \in 1..Len(all(data, owner)) : IsPendingFor(data[owner][i], trigger)}

\* The ids of a sequence of reminders, as a set.
IdsOf(reminders) == {reminders[i].id : i \in 1..Len(reminders)}

\* The payloads a schedule, list or fire call handed back.
Returned ==
    IF lastOp.op \in {"schedule", "list", "fire"} /\ ~lastOp.raised
    THEN lastOp.result ELSE <<>>

\* C8: no payload returned by ReminderService.schedule, list or fire holds a
\* real Google task id or a real task-list id in any of its fields.
C8_NoRealIdInReminderResults ==
    \A i \in 1..Len(Returned) :
        \A f \in DOMAIN Returned[i] : Returned[i][f] \notin RealReminderIds

\* C9: a reminder that enters the store is pending; a fire call that returns
\* returns exactly the owner's reminders that were pending with its trigger
\* type, each of them fired; a fired reminder stays fired and is not returned
\* by a later fire call; a fire call directly after a fire call of the same
\* owner and trigger type returns nothing.
C9_ReminderLifecycle ==
    [][/\ \A r \in AllReminders(_data') :
            r.id \notin {q.id : q \in AllReminders(_data)} => r.status = "pending"
       /\ (lastOp'.op = "schedule" /\ ~lastOp'.raised) =>
            lastOp'.result[1].status = "pending"
       /\ (lastOp'.op = "fire" /\ ~lastOp'.raised) =>
            /\ IdsOf(lastOp'.result) =
                 {_data[lastOp'.owner][i].id :
                    i \in PendingPositions(_data, lastOp'.owner, lastOp'.trigger)}
            /\ Len(lastOp'.result) =
                 Cardinality(PendingPositions(_data, lastOp'.owner, lastOp'.trigger))
            /\ \A i \in 1..Len(lastOp'.result) : lastOp'.result[i].status = "fired"
       /\ (lastOp'.op = "fire" /\ lastOp'.trigger # None) =>
            \A i \in PendingPositions(_data, lastOp'.owner, lastOp'.trigger) :
                _data'[lastOp'.owner][i].status = "fired"
       /\ \A o \in DOMAIN _data : \A i \in 1..Len(_data[o]) :
            _data[o][i].status = "fired" =>
                /\ _data'[o][i].id = _data[o][i].id
                /\ _data'[o][i].status = "fired"
                /\ (lastOp'.op = "fire" /\ ~lastOp'.raised) =>
                       _data[o][i].id \notin IdsOf(lastOp'.result)
       /\ (/\ lastOp.op = "fire" /\ lastOp'.op = "fire"
           /\ lastOp.trigger # None /\ lastOp'.trigger = lastOp.trigger
           /\ lastOp'.owner = lastOp.owner /\ ~lastOp'.raised) =>
            lastOp'.result = <<>>
      ]_vars

\* A fire call returned a reminder while the owner holds another reminder of
\* the same trigger type that was fired before and is not returned again.
C9_Witness ==
    /\ lastOp.op = "fire"
    /\ ~lastOp.raised
    /\ Len(lastOp.result) >= 1
    /\ \E i \in 1..Len(all(_data, lastOp.owner)) :
          /\ _data[lastOp.owner][i].trigger_type = lastOp.trigger
          /\ _data[lastOp.owner][i].status = "fired"
          /\ _data[lastOp.owner][i].id \notin IdsOf(lastOp.result)

\* What a fire call leaves in a reminder it matched: fired, with fired_at set,
\* and the outcome of the task creation recorded.
FiredWithOutcome(reminder, task_created) ==
    /\ reminder.status = "fired"
    /\ reminder.fired_at # NoTime
    /\ IF task_created
       THEN /\ reminder.google_task_id # None
            /\ reminder.google_task_alias # None
            /\ reminder.task_list_id # None
            /\ reminder.task_error = None
       ELSE /\ reminder.task_error # None
            /\ reminder.google_task_id = None

\* Every reminder a fire call matched is fired with its outcome, and no task
\* is created without a connection.
FiringNotGated ==
    (lastOp'.op = "fire" /\ lastOp'.trigger # None) =>
        /\ \A i \in PendingPositions(_data, lastOp'.owner, lastOp'.trigger) :
              FiredWithOutcome(_data'[lastOp'.owner][i],
                               _data[lastOp'.owner][i].id \in lastOp'.created)
        /\ ~lastOp'.connection => lastOp'.created = {}

\* C10 as stated: every reminder a fire call matched is fired with fired_at
\* set whether the task creation succeeds, fails or cannot be attempted, the
\* outcome fields are set accordingly, and the fire call does not raise.
C10_FiringNotGatedAsClaimed ==
    [][/\ FiringNotGated
       /\ (/\ lastOp'.op = "fire" /\ lastOp'.trigger # None
           /\ PendingPositions(_data, lastOp'.owner, lastOp'.trigger) # {}) =>
            ~lastOp'.raised
      ]_vars

\* C10: every reminder a fire call matched is fired with fired_at set whether
\* the task creation succeeds, fails or cannot be attempted, the outcome
\* fields are set accordingly, and the fire call raises only when the file
\* does not get the new content.
C10_FiringNotGated ==
    [][/\ FiringNotGated
       /\ (/\ lastOp'.op = "fire" /\ lastOp'.trigger # None
           /\ PendingPositions(_data, lastOp'.owner, lastOp'.trigger) # {}
           /\ lastOp'.raised) =>
            file' # Persisted(_data')
      ]_vars

\* A fire call returned two reminders, one with its task created and one
\* with the error recorded.
C10_Witness ==
    /\ lastOp.op = "fire"
    /\ ~lastOp.raised
    /\ \E i, j \in 1..Len(lastOp.result) :
          /\ lastOp.result[i].status = "fired"
          /\ lastOp.result[i].google_task_id # None
          /\ lastOp.result[j].status = "fired"
          /\ lastOp.result[j].task_error # None

\* The ids of the owner's reminders that are pending with the trigger type.
PendingIds(data, owner, trigger) ==
    {data[owner][i].id : i \in PendingPositions(data, owner, trigger)}

\* The elements of a sequence, as a set.
Elements(seq) == {seq[i] : i \in 1..Len(seq)}

\* No element occurs twice in the sequence.
NoRepeats(seq) == \A i, j \in 1..Len(seq) : seq[i] = seq[j] => i = j

\* The error texts a fired reminder carries when create_task was not called
\* for it.
NotAttemptedErrors ==
    {"Google is not connected; task creation skipped.",
     "No Google task lists are available.", ListsError}

\* A fired reminder stays as it is, and create_task is called only by fire,
\* only for reminders that fire in this very call, at most once for each.
AtMostOneAttempt ==
    /\ \A o \in DOMAIN _data : \A i \in 1..Len(_data[o]) :
          _data[o][i].status = "fired" => _data'[o][i] = _data[o][i]
    /\ lastOp'.op \in {"schedule", "list"} => lastOp'.calls = <<>>
    /\ lastOp'.op = "fire" =>
          /\ NoRepeats(lastOp'.calls)
          /\ lastOp'.trigger = None => lastOp'.calls = <<>>
          /\ lastOp'.trigger # None =>
                Elements(lastOp'.calls)
                    \subseteq PendingIds(_data, lastOp'.owner, lastOp'.trigger)

\* C11 as stated: a fired reminder never fires again, and for every reminder
\* that fires exactly one create_task call is made, in the call that fires it.
C11_OneAttemptAsClaimed ==
    [][/\ AtMostOneAttempt
       /\ (lastOp'.op = "fire" /\ lastOp'.trigger # None) =>
             Elements(lastOp'.calls)
                 = PendingIds(_data, lastOp'.owner, lastOp'.trigger)
      ]_vars

\* C11: a fired reminder never fires again; create_task is called at most once
\* for a reminder, in the fire call that fires it, and it is called exactly
\* when that call has a connection and finds a default task list.
C11_OneAttempt ==
    [][/\ AtMostOneAttempt
       /\ (lastOp'.op = "fire" /\ lastOp'.trigger # None) =>
             \A i \in PendingPositions(_data, lastOp'.owner, lastOp'.trigger) :
                 (_data[lastOp'.owner][i].id \in Elements(lastOp'.calls))
                     <=> (_data'[lastOp'.owner][i].task_error
                              \notin NotAttemptedErrors)
      ]_vars

\* A fire call fired two reminders and called create_task for one of them.
C11_Witness ==
    /\ lastOp.op = "fire"
    /\ ~lastOp.raised
    /\ Len(lastOp.result) = 2
    /\ Len(lastOp.calls) = 1

\* Every spelling of a trigger type that is supported.
SupportedSpellings ==
    VALID_TRIGGERS
        \cup {"enter", "entering_car", "in_car", "exit", "leaving_car",
              "out_car", "out_of_car"}

\* The arguments of a call carry no text, or a blank one.
TextMissing(arguments) ==
    "text" \notin DOMAIN arguments \/ strip(arguments.text) = ""

\* The arguments of a call name a trigger type that is not supported.
TriggerUnsupported(arguments) ==
    underscored(lower(strip(arguments.trigger_type))) \notin SupportedSpellings

\* The call of this step was handed invalid input.
InvalidInput ==
    \/ /\ lastOp'.op = "schedule"
       /\ TextMissing(lastOp'.arguments) \/ TriggerUnsupported(lastOp'.arguments)
    \/ /\ lastOp'.op = "fire"
       /\ TriggerUnsupported(lastOp'.arguments)

C35_FireTouchesOnlyMatches ==
    [][lastOp'.op = "fire"
       => \A o \in DOMAIN _data :
             /\ o \in DOMAIN _data'
             /\ Len(_data'[o]) = Len(_data[o])
             /\ \A i \in 1..Len(_data[o]) :
                   (o # lastOp'.owner
                      \/ ~IsPendingFor(_data[o][i], lastOp'.trigger))
                   => _data'[o][i] = _data[o][i]]_vars

\* A fire call of the logged-in user has fired one of the user's two
\* reminders and left the other, of the other trigger type, pending.
C35_Witness ==
    /\ lastOp.op = "fire"
    /\ lastOp.owner = UserId
    /\ Len(lastOp.result) = 1
    /\ \E i, j \in 1..Len(all(_data, UserId)) :
          /\ _data[UserId][i].status = "fired"
          /\ _data[UserId][j].status = "pending"
          /\ _data[UserId][j].trigger_type # lastOp.trigger

-----------------------------------------------------------------------------
(* Reading the file back: reminder_serialization.deserialize_reminder and  *)
(* PersistentReminderStore._load.                                           *)

\* Latest instant a stored timestamp can name.
MaxClock == 2

\* datetime.fromisoformat; NoTime where it raises ValueError.
fromisoformat(value) ==
    IF \E t \in 1..MaxClock : isoformat(t) = value
    THEN CHOOSE t \in 1..MaxClock : isoformat(t) = value
    ELSE NoTime

\* _parse_datetime on a JSON string or null.
_parse_datetime(value) == IF value = None THEN NoTime ELSE fromisoformat(value)

\* A _coerce_string that leaves text as it is.
CoerceVerbatim(value) == value

\* _coerce_string on a JSON string or null: str(value) of a string is the
\* string.
_coerce_string(value) ==
    IF value # None /\ strip(value) # "" THEN strip(value)
    ELSE IF value = None THEN None
    ELSE value

\* deserialize_reminder(raw) at clock t.
deserialize_reminder(raw, t) ==
    LET created_at == _parse_datetime(Get(raw, "created_at", None))
        fired_at == _parse_datetime(Get(raw, "fired_at", None))
    IN  [id |-> Either(_coerce_string(Get(raw, "id", None)),
                       Either(_coerce_string(Get(raw, "uid", None)), "")),
         text |-> Either(_coerce_string(Get(raw, "text", None)), ""),
         trigger_type |-> Either(_coerce_string(Get(raw, "trigger_type", None)), ""),
         status |-> Either(_coerce_string(Get(raw, "status", None)), "pending"),
         created_at |-> IF created_at = NoTime THEN t ELSE created_at,
         fired_at |-> fired_at,
         google_task_id |-> _coerce_string(Get(raw, "google_task_id", None)),
         google_task_alias |-> _coerce_string(Get(raw, "google_task_alias", None)),
         task_list_id |-> _coerce_string(Get(raw, "task_list_id", None)),
         task_error |-> _coerce_string(Get(raw, "task_error", None))]

\* isinstance(raw, Mapping): an item that is no JSON object is a record with
\* the one field json.
IsMapping(raw) == "json" \notin DOMAIN raw

\* The loop over raw_items in _load.
RECURSIVE ParsedItems(_, _)
ParsedItems(raw_items, t) ==
    IF raw_items = <<>> THEN <<>>
    ELSE IF ~IsMapping(Head(raw_items)) THEN ParsedItems(Tail(raw_items), t)
    ELSE <<deserialize_reminder(Head(raw_items), t)>>
             \o ParsedItems(Tail(raw_items), t)

\* A _load that also returns when the JSON content is no object.
LoadGuarded(f, t) ==
    IF ~f.readable \/ f.payload # "object" \/ f.owners_kind # "mapping"
    THEN [raised |-> FALSE, data |-> EmptyMap]
    ELSE LET kept == {o \in DOMAIN f.owners :
                         /\ f.owners[o].list
                         /\ ParsedItems(f.owners[o].items, t) # <<>>}
         IN  [raised |-> FALSE,
              data |-> [o \in kept |-> ParsedItems(f.owners[o].items, t)]]

\* PersistentReminderStore._load at clock t: the owner map it builds, or the
\* AttributeError of payload.get on JSON content that is no object.
_load(f, t) ==
    IF ~f.readable THEN [raised |-> FALSE, data |-> EmptyMap]
    ELSE IF f.payload # "object" THEN [raised |-> TRUE, data |-> EmptyMap]
    ELSE IF f.owners_kind # "mapping" THEN [raised |-> FALSE, data |-> EmptyMap]
    ELSE LET kept == {o \in DOMAIN f.owners :
                         /\ f.owners[o].list
                         /\ ParsedItems(f.owners[o].items, t) # <<>>}
         IN  [raised |-> FALSE,
              data |-> [o \in kept |-> ParsedItems(f.owners[o].items, t)]]

-----------------------------------------------------------------------------
(* Request threads calling the reminder service over the one store.  A     *)
(* thread record holds: pc, where the thread is in its call; op, owner,    *)
(* trigger, connection, the call; reminder, the object schedule built;     *)
(* held, the positions in the owner's canonical list of the objects the    *)
(* store operation handed to (or took from) the caller as they are;        *)
(* copies, the copies it handed out; raised, result, calls, the outcome.   *)

\* The positions of a set in increasing order.
RECURSIVE SortedPositions(_)
SortedPositions(positions) ==
    IF positions = {} THEN <<>>
    ELSE LET least == CHOOSE i \in positions : \A j \in positions : i <= j
         IN  <<least>> \o SortedPositions(positions \ {least})

\* Reminders the store holds at most while request threads interleave.
MaxStored == 1

\* Trigger names the request threads send: a valid and an invalid one.
ThreadTriggerInputs == {"in_car", "tomorrow"}

\* A lock that is never waited for.
AcquireAlways(lock) == TRUE

\* `with self._lock`: the lock can be taken when no thread holds it.
CanAcquire(lock) == lock = None

\* The with block leaves the lock free, on return and on a raise.
LockAfterWith(raised) == None

\* A with block that keeps the lock when its body raised.
LockKeptOnRaise(t, raised) == IF raised THEN t ELSE None

\* The lock after thread t left its with block.
Released(t, raised) == LockAfterWith(raised)

\* Reminders built by schedule calls and not yet in the store.
InFlight ==
    {t \in Threads : threads[t].pc \in {"acquire", "locked"}
                        /\ threads[t].op = "schedule"}

\* uuid.uuid4() for a reminder built while other calls are under way.
NewThreadReminderId ==
    LET used == UNION {IdsOf(_data[o]) : o \in DOMAIN _data}
                  \cup {threads[t].reminder[1].id : t \in InFlight}
        fresh == {n \in 1..MaxStored : ("r" \o ToString(n)) \notin used}
    IN  "r" \o ToString(CHOOSE n \in fresh : \A k \in fresh : n <= k)

\* The one task list of the account.
HomeLists == Answer(<<[id |-> "L1", title |-> "Home", name |-> "Home"]>>)

InitStore ==
    /\ alias_state = EmptyAliasState
    /\ issued = {}
    /\ was_reset = FALSE
    /\ _sessions = EmptyMap
    /\ heap = EmptyMap
    /\ lastOp = [op |-> "init"]
    /\ calendar_cache = EmptyCalendarCache
    /\ now = 1
    /\ user = None
    /\ task_lists_cache = EmptyTaskListCache
    /\ _data = EmptyMap
    /\ file = NoFile
    /\ _lock = None
    /\ threads = IdleThreads
    /\ last_write = "none"
    /\ google = None

\* What a thread step leaves alone besides the store and the session.
threadFrame == <<issued, was_reset, storeVars,
                 lastOp, calendar_cache, now, user, google>>

\* ReminderService.schedule up to the call of store.append.
CallSchedule(t) ==
    \E trigger_type \in ThreadTriggerInputs :
      LET checked == _require_string(" milk ")
          trigger == _require_trigger(trigger_type)
          owner == _owner_key(SessionId, user)
      IN  /\ threads[t].pc = "idle"
          /\ Cardinality(AllReminders(_data)) + Cardinality(InFlight) < MaxStored
          /\ threads' = [threads EXCEPT ![t] =
                IF trigger.raised
                THEN Thread("raised", "schedule", owner, None, FALSE, <<>>, <<>>,
                            <<>>, TRUE, <<>>, <<>>)
                ELSE Thread("acquire", "schedule", owner, trigger.out, FALSE,
                            <<TriggerReminder(NewThreadReminderId, checked.out,
                                              trigger.out, now)>>,
                            <<>>, <<>>, FALSE, <<>>, <<>>)]
          /\ UNCHANGED <<alias_state, task_lists_cache, _data, file, last_write,
                         _lock, threadFrame>>

\* ReminderService.list up to the call of store.all.
CallList(t) ==
    /\ threads[t].pc = "idle"
    /\ threads' = [threads EXCEPT ![t] =
          Thread("acquire", "list", _owner_key(SessionId, user), None, FALSE,
                 <<>>, <<>>, <<>>, FALSE, <<>>, <<>>)]
    /\ UNCHANGED <<alias_state, task_lists_cache, _data, file, last_write,
                   _lock, threadFrame>>

\* ReminderService.fire up to the call of store.mutate.
CallFire(t) ==
    \E trigger_type \in ThreadTriggerInputs, connection \in BOOLEAN :
      LET trigger == _require_trigger(trigger_type)
          owner == _owner_key(SessionId, user)
      IN  /\ threads[t].pc = "idle"
          /\ threads' = [threads EXCEPT ![t] =
                IF trigger.raised
                THEN Thread("raised", "fire", owner, None, connection, <<>>, <<>>,
                            <<>>, TRUE, <<>>, <<>>)
                ELSE Thread("acquire", "fire", owner, trigger.out, connection,
                            <<>>, <<>>, <<>>, FALSE, <<>>, <<>>)]
          /\ UNCHANGED <<alias_state, task_lists_cache, _data, file, last_write,
                         _lock, threadFrame>>

\* Entering `with self._lock` of all, append or mutate.
Acquire(t) ==
    /\ threads[t].pc = "acquire"
    /\ CanAcquire(_lock)
    /\ _lock' = t
    /\ threads' = [threads EXCEPT ![t].pc = "locked"]
    /\ UNCHANGED <<alias_state, task_lists_cache, _data, file, last_write,
                   threadFrame>>

\* PersistentReminderStore.all inside the lock: deep copies.
CopyAll(t) ==
    /\ threads[t].pc = "locked"
    /\ threads[t].op = "list"
    /\ threads' = [threads EXCEPT ![t].pc = "release",
                                  ![t].copies = all(_data, threads[t].owner)]
    /\ UNCHANGED <<alias_state, task_lists_cache, _data, file, last_write,
                   _lock, threadFrame>>

\* PersistentReminderStore.append inside the lock, before _persist: the
\* caller's object itself goes into the list.
AppendReminder(t) ==
    LET data == SetDefault(_data, threads[t].owner)
    IN  /\ threads[t].pc = "locked"
        /\ threads[t].op = "schedule"
        /\ _data' = [data EXCEPT ![threads[t].owner] =
                        Append(@, threads[t].reminder[1])]
        /\ threads' = [threads EXCEPT
              ![t].pc = "persist",
              ![t].held = <<Len(data[threads[t].owner]) + 1>>]
        /\ UNCHANGED <<alias_state, task_lists_cache, file, last_write, _lock,
                       threadFrame>>

\* PersistentReminderStore.mutate inside the lock, before _persist: the
\* transform of fire runs on the live list and its result, the fired
\* objects themselves, goes to the caller.
Transform(t) ==
    LET owner == threads[t].owner
        trigger == threads[t].trigger
        data == SetDefault(_data, owner)
        attempts == 1..Cardinality(Reachable(owner, trigger))
    IN  /\ threads[t].pc = "locked"
        /\ threads[t].op = "fire"
        /\ \E ok \in BOOLEAN :
           \E acc \in {_trigger_reminders(
                          [reminders |-> data[owner], triggered |-> <<>>,
                           cache |-> task_lists_cache, state |-> alias_state,
                           created |-> {}, calls |-> <<>>],
                          1, trigger,
                          [connection |-> threads[t].connection, t |-> now,
                           lists |-> [k \in attempts |-> HomeLists],
                           created |-> CreateReplies([k \in attempts |-> ok])])} :
              /\ _data' = [data EXCEPT ![owner] = acc.reminders]
              /\ alias_state' = acc.state
              /\ task_lists_cache' = acc.cache
              /\ threads' = [threads EXCEPT
                    ![t].pc = "persist",
                    ![t].held = SortedPositions(
                                    PendingPositions(data, owner, trigger)),
                    ![t].calls = acc.calls]
        /\ UNCHANGED <<file, last_write, _lock, threadFrame>>

\* PersistentReminderStore._persist inside the lock.
Persist(t) ==
    /\ threads[t].pc = "persist"
    /\ \E write_ok \in BOOLEAN :
          /\ file' \in FilesAfterPersist(_data, file, write_ok)
          /\ last_write' = WriteOutcome(write_ok, last_write)
          /\ threads' = [threads EXCEPT ![t].pc = "release",
                                        ![t].raised = ~write_ok]
    /\ UNCHANGED <<alias_state, task_lists_cache, _data, _lock, threadFrame>>

\* Leaving the with block: the store operation returns or raises.
Release(t) ==
    /\ threads[t].pc = "release"
    /\ _lock' = Released(t, threads[t].raised)
    /\ threads' = [threads EXCEPT
          ![t].pc = IF threads[t].raised THEN "raised" ELSE "serialize"]
    /\ UNCHANGED <<alias_state, task_lists_cache, _data, file, last_write,
                   threadFrame>>

\* serialize_reminder in schedule, list and fire, after the store operation
\* returned: it reads the objects the caller holds.
Serialize(t) ==
    /\ threads[t].pc = "serialize"
    /\ threads' = [threads EXCEPT
          ![t].pc = "returned",
          ![t].result =
              IF threads[t].op = "list" THEN SerializeAll(threads[t].copies)
              ELSE [k \in 1..Len(threads[t].held) |->
                       serialize_reminder(
                           _data[threads[t].owner][threads[t].held[k]])]]
    /\ UNCHANGED <<alias_state, task_lists_cache, _data, file, last_write,
                   _lock, threadFrame>>

\* The request is answered; the thread serves the next one.
Finish(t) ==
    /\ threads[t].pc \in {"returned", "raised"}
    /\ threads' = [threads EXCEPT ![t] = IdleThread]
    /\ UNCHANGED <<alias_state, task_lists_cache, _data, file, last_write,
                   _lock, threadFrame>>

\* PersistentReminderStore.__init__ of a fresh instance over the same file,
\* in place of the store, while no call is under way.
NewStore ==
    /\ \A t \in Threads : threads[t].pc = "idle"
    /\ \E loaded \in {_load(file, now)} :
          /\ lastOp' = [op |-> "new_store", raised |-> loaded.raised]
          /\ _data' = loaded.data
    /\ _lock' = None
    /\ last_write' = "none"
    /\ UNCHANGED <<alias_state, issued, was_reset, storeVars,
                   calendar_cache, now, user,
                   task_lists_cache, file, threads, google>>

NextStore ==
    \/ NewStore
    \/ \E t \in Threads :
          \/ CallSchedule(t)
          \/ CallList(t)
          \/ CallFire(t)
          \/ Acquire(t)
          \/ CopyAll(t)
          \/ AppendReminder(t)
          \/ Transform(t)
          \/ Persist(t)
          \/ Release(t)
          \/ Serialize(t)
          \/ Finish(t)

SpecStore == InitStore /\ [][NextStore]_vars

\* Threads inside a with block of the store.
InCriticalSection == {t \in Threads : threads[t].pc \in {"locked", "persist", "release"}}

MutualExclusion ==
    /\ Cardinality(InCriticalSection) <= 1
    /\ \A t \in InCriticalSection : _lock = t

\* Two fire calls under way for one owner and one trigger.
ConcurrentFires(t, u) ==
    /\ t # u
    /\ threads[t].op = "fire" /\ threads[u].op = "fire"
    /\ threads[t].pc \notin {"idle", "acquire"}
    /\ threads[u].pc # "idle"
    /\ threads[t].owner = threads[u].owner
    /\ threads[t].trigger = threads[u].trigger

\* What two calls under way took from the store never overlaps.
FireDisjoint ==
    \A t, u \in Threads :
        ConcurrentFires(t, u) =>
            /\ Elements(threads[t].held) \cap Elements(threads[u].held) = {}
            /\ Elements(threads[t].calls) \cap Elements(threads[u].calls) = {}
            /\ NoRepeats(threads[t].calls)
            /\ IdsOf(threads[t].result) \cap IdsOf(threads[u].result) = {}

\* The transform of thread t took every pending matching reminder of the
\* state it ran in, and left none of them pending.
TookAllPending(t) ==
    (threads[t].pc = "locked" /\ threads[t].op = "fire" /\ threads'[t].pc = "persist")
    => /\ Elements(threads'[t].held) =
              PendingPositions(SetDefault(_data, threads[t].owner),
                               threads[t].owner, threads[t].trigger)
       /\ PendingPositions(_data', threads[t].owner, threads[t].trigger) = {}
       /\ Elements(threads'[t].calls) \subseteq
              {_data'[threads[t].owner][i].id : i \in Elements(threads'[t].held)}

\* A fire call that has ended returned what it took, one attempt each.
ReturnedWhatItTook ==
    \A t, u \in Threads :
        (ConcurrentFires(t, u) /\ threads[t].pc \in {"returned", "raised"}
            /\ threads[t].held # <<>>)
        => /\ threads[t].pc = "returned"
           /\ IdsOf(threads[t].result) =
                  {_data[threads[t].owner][i].id : i \in Elements(threads[t].held)}
           /\ Len(threads[t].calls) = Len(threads[t].held)

\* C12 as stated: critical sections of concurrent store calls do not
\* interleave, and with two concurrent fire(T) calls for one owner every
\* pending matching reminder is returned by exactly one of the two calls and
\* gets exactly one task-creation attempt.
C12_AtomicAsClaimed ==
    [][/\ MutualExclusion'
       /\ FireDisjoint'
       /\ \A t \in Threads : TookAllPending(t)
       /\ ReturnedWhatItTook']_vars

\* C12, amended: critical sections of concurrent store calls do not
\* interleave; with two concurrent fire(T) calls for one owner every pending
\* matching reminder is taken by exactly one of the two calls, is returned by
\* no other call, and gets at most one task-creation attempt, made by the
\* call that took it.
C12_Atomic ==
    [][/\ MutualExclusion'
       /\ FireDisjoint'
       /\ \A t \in Threads : TookAllPending(t)]_vars

\* Two concurrent fire calls for one trigger have both returned: one with the
\* reminder and its one attempt, the other with nothing.
C12_Witness ==
    \E t, u \in Threads :
        /\ ConcurrentFires(t, u)
        /\ threads[t].pc = "returned" /\ threads[u].pc = "returned"
        /\ Len(threads[t].result) = 1 /\ Len(threads[t].calls) = 1
        /\ threads[u].result = <<>> /\ threads[u].calls = <<>>

\* Threads whose store operation has returned to the service.
AfterStoreOperation ==
    {t \in Threads : threads[t].pc \in {"serialize", "returned"}}

\* C13: after a store operation (all, append in schedule, mutate in fire)
\* returned, no reminder the caller can reach is an object of the store's
\* canonical list; so what schedule returns is the pending reminder it
\* appended, whatever other calls do in between.
C13_CallersHoldCopies ==
    \A t \in AfterStoreOperation :
        /\ threads[t].held = <<>>
        /\ (threads[t].op = "schedule" /\ threads[t].pc = "returned")
               => threads[t].result = SerializeAll(threads[t].reminder)

\* Threads inside _persist.
Writers == {t \in Threads : threads[t].pc = "persist"}

\* Some append or mutate has run to its end, file write included.
MutationCompleted == last_write \in {"ok", "failed"}

OneWriterInsideLock ==
    /\ Cardinality(Writers) <= 1
    /\ \A t \in Writers : _lock = t
    /\ \A t \in Threads :
          (threads[t].pc = "release" /\ threads[t].op \in {"schedule", "fire"}
              /\ ~threads[t].raised)
          => file = Persisted(_data)

WriteFailed(t) ==
    /\ threads[t].pc = "persist"
    /\ threads'[t].pc = "release"
    /\ last_write' # "ok"

\* Thread t has ended its schedule or fire call by the error of its write.
RaisedByWrite(t) ==
    /\ threads[t].pc = "raised"
    /\ threads[t].op \in {"schedule", "fire"}
    /\ threads[t].trigger # None

\* The lock is held only by a thread inside a with block of the store.
LockHeldOnlyInside ==
    _lock # None => threads[_lock].pc \in {"locked", "persist", "release"}

\* C18: a file write that fails inside append or mutate ends the store
\* operation and the schedule or fire call around it with the error, without
\* a result, and the lock is free again once the operation has ended.
C18_WriteFailureSurfaced ==
    [][/\ LockHeldOnlyInside'
       /\ \A t \in Threads :
             /\ WriteFailed(t) => threads'[t].raised
             /\ (threads[t].pc = "release" /\ threads[t].raised
                    /\ threads'[t] # threads[t])
                => /\ threads'[t].pc = "raised"
                   /\ threads'[t].result = <<>>
                   /\ _lock' = None
             /\ (threads[t].pc = "raised" /\ threads'[t] # threads[t])
                => threads'[t] = IdleThread]_vars

\* A call has ended by the error of its write and another thread is inside
\* the lock.
C18_Witness ==
    \E t, u \in Threads :
        /\ RaisedByWrite(t)
        /\ last_write # "ok"
        /\ threads[u].pc = "locked"
        /\ _lock = u

\* PersistentReminderStore.mutate inside the lock when the transform raises:
\* the transform of fire has set the status of the first matching reminder
\* of the live list when the statement after it, outside the try block,
\* raises; mutate has no handler, so _persist is skipped and the with block
\* is left by the exception.
TransformRaises(t) ==
    LET owner == threads[t].owner
        data == SetDefault(_data, owner)
        matching == PendingPositions(data, owner, threads[t].trigger)
    IN  /\ threads[t].pc = "locked"
        /\ threads[t].op = "fire"
        /\ matching # {}
        /\ \E i \in {SortedPositions(matching)[1]} :
              _data' = [data EXCEPT ![owner][i].status = "fired"]
        /\ threads' = [threads EXCEPT ![t].pc = "release", ![t].raised = TRUE]
        /\ UNCHANGED <<alias_state, task_lists_cache, file, last_write, _lock,
                       threadFrame>>

\* The store under request threads whose transform may raise.
NextMutate ==
    \/ NextStore
    \/ \E t \in Threads : TransformRaises(t)

SpecMutate == InitStore /\ [][NextMutate]_vars

\* The transform of thread t raised in this step.
TransformRaised(t) ==
    /\ threads[t].pc = "locked"
    /\ threads'[t].pc = "release"
    /\ threads'[t].raised

\* C40: if the transform passed to mutate raises, the owner's in-memory list
\* and the file are as before the call, the lock is released, and the
\* in-memory map still equals the file content.
C40_FailedTransformChangesNothing ==
    [][\A t \in Threads :
          /\ TransformRaised(t)
             => /\ all(_data', threads[t].owner) = all(_data, threads[t].owner)
                /\ file' = file
                /\ file = Persisted(_data) => file' = Persisted(_data')
          /\ (threads[t].pc = "release" /\ threads'[t].pc = "raised")
             => _lock' = None]_vars

\* The owner a call is made for: the logged-in user, else the session.
CallingOwner == IF user # None THEN user ELSE SessionId

\* The owners other than the calling one that have reminders.
OtherOwners == DOMAIN _data \ {CallingOwner}

\* The ids of the reminders stored under other owners.
ForeignIds == UNION {IdsOf(_data[a]) : a \in OtherOwners}

\* C16: a schedule, list or fire call made for one owner leaves the reminders
\* of every other owner as they are, and neither its result nor its
\* task-creation attempts contain a reminder of another owner.
C16_OwnerIsolation ==
    [][lastOp'.op \in {"schedule", "list", "fire"}
       => /\ \A a \in OtherOwners : a \in DOMAIN _data' /\ _data'[a] = _data[a]
          /\ DOMAIN _data' \subseteq DOMAIN _data \cup {CallingOwner}
          /\ IdsOf(lastOp'.result) \cap ForeignIds = {}
          /\ Elements(lastOp'.calls) \cap ForeignIds = {}]_vars

\* The logged-in user fired a trigger for which the anonymous session still
\* has a pending reminder.
C16_Witness ==
    /\ lastOp.op = "fire"
    /\ ~lastOp.raised
    /\ lastOp.owner = UserId
    /\ lastOp.result # <<>>
    /\ PendingPositions(_data, SessionId, lastOp.trigger) # {}

\* A fresh store instance was constructed in this step.
Constructed ==
    /\ lastOp'.op = "new_store"
    /\ \A t \in Threads : threads[t].pc = "idle" /\ threads'[t].pc = "idle"

\* C15: a fresh store instance constructed over the file that the appends and
\* mutates of a store wrote returns from all(owner), for every owner, the
\* reminders the old instance held, in the same order, equal in every field.
C15_RoundTrip ==
    [][(Constructed /\ last_write = "ok")
       => \A owner \in DOMAIN _data \cup DOMAIN _data' :
             all(_data', owner) = all(_data, owner)]_vars

-----------------------------------------------------------------------------
(* Constructing a store over a file some other program or an earlier run   *)
(* left behind.                                                             *)

\* Longest list of items an owner has in such a file.
MaxRaw == 2

Owners == {SessionId, UserId}

\* Items of an owner's list: a reminder as _persist writes it, a JSON value
\* that is no object, the empty object, and an object with a uid in place of
\* the id, a timestamp that is no date and an empty status.
RawItems ==
    {serialize_reminder(TriggerReminder("r1", "milk", "enter_car", 1)),
     [json |-> "number"],
     EmptyMap,
     [uid |-> " r9 ", created_at |-> "bad", status |-> ""]}

\* What the "owners" object holds for one owner: a list of items, or a JSON
\* value that is no list.
OwnerValues ==
    {[list |-> FALSE, items |-> <<>>]}
        \cup {[list |-> TRUE, items |-> items] : items \in SeqsUpTo(RawItems, MaxRaw)}

\* JSON content that is no object.
OtherPayloads == {"list", "null", "number", "string"}

LoadFiles ==
    {NoFile}
        \cup {[readable |-> TRUE, payload |-> p, owners_kind |-> "absent",
               owners |-> EmptyMap] : p \in OtherPayloads}
        \cup {[readable |-> TRUE, payload |-> "object", owners_kind |-> k,
               owners |-> EmptyMap] : k \in {"absent", "other"}}
        \cup UNION {{[readable |-> TRUE, payload |-> "object",
                      owners_kind |-> "mapping", owners |-> owners] :
                        owners \in [present -> OwnerValues]} :
                            present \in SUBSET Owners}

InitLoad ==
    /\ alias_state = EmptyAliasState
    /\ issued = {}
    /\ was_reset = FALSE
    /\ _sessions = EmptyMap
    /\ heap = EmptyMap
    /\ lastOp = [op |-> "init"]
    /\ calendar_cache = EmptyCalendarCache
    /\ now = 1
    /\ user = None
    /\ task_lists_cache = EmptyTaskListCache
    /\ _data = EmptyMap
    /\ file \in LoadFiles
    /\ _lock = None
    /\ threads = IdleThreads
    /\ last_write = "none"
    /\ google = None

\* PersistentReminderStore.all on the store that was constructed.
AllOf ==
    \E owner \in Owners :
        /\ lastOp.op \in {"new_store", "all"}
        /\ ~lastOp.raised
        /\ lastOp' = [op |-> "all", raised |-> FALSE, owner |-> owner,
                      result |-> all(_data, owner)]
        /\ UNCHANGED <<alias_state, issued, was_reset, storeVars,
                       calendar_cache, now, user,
                       task_lists_cache, _data, file, _lock, threads, last_write, google>>

NextLoad == NewStore \/ AllOf

SpecLoad == InitLoad /\ [][NextLoad]_vars

\* The file holds nothing that can be read for the owner.
Unread(f, owner) ==
    \/ ~f.readable
    \/ f.payload # "object"
    \/ f.owners_kind # "mapping"
    \/ owner \notin DOMAIN f.owners
    \/ ~f.owners[owner].list

\* C17: constructing a store over a missing or unreadable file, or a file
\* with corrupt or unexpected content, never raises, and all(owner) of the
\* store is empty for every owner whose data could not be read.
C17_StartupNeverFails ==
    lastOp.op = "new_store"
    => /\ ~lastOp.raised
       /\ \A owner \in Owners : Unread(file, owner) => all(_data, owner) = <<>>

-----------------------------------------------------------------------------
(* One session's calendar visibility over time: CalendarVisibilityService  *)
(* called with what the calendar list answers, and the clock between calls. *)

\* Clock advances between two calls: the lifetime of the cached calendar
\* list, and what is left of the lifetime of a selection after it.
ShortStep == CALENDAR_LIST_TTL_MINUTES
LongStep == VisibleSelectionTtl - CALENDAR_LIST_TTL_MINUTES

\* Cap on the number of clock advances.
MaxTicks == 3

\* The clock advances made so far.
Ticks(t) == ((t - 1) \div LongStep) + (((t - 1) % LongStep) \div ShortStep)

\* What list_calendars may answer while visibility is in use.
HiddenCalendar ==
    [id |-> "calB", name |-> "Team", primary |-> FALSE,
     access_role |-> "freeBusyReader"]
VisibilityReplies ==
    CalendarReplies
        \cup {Answer(<<>>), Answer(<<PrimaryCalendar>>),
              Answer(<<HiddenCalendar, PrimaryCalendar>>)}

\* The cached calendar list is served without a read of the external source.
Cached(cache, t) ==
    /\ cache.available # <<>>
    /\ cache.available_expires_at # NoTime
    /\ cache.available_expires_at > t

\* The answers that matter to a call that finds this cache: none is read
\* while the cached list is served, or after the read before it failed.
RepliesRead(cache, t) == IF Cached(cache, t) THEN {Failure} ELSE VisibilityReplies
RepliesReadAgain(first, t) ==
    IF first.raised THEN {Failure} ELSE RepliesRead(first.cache, t)

\* The calendar ids a client may ask to see: none, one, two, one twice, and
\* one that no calendar has.
RequestedIds ==
    {<<>>, <<"primary">>, <<"calB">>, <<"zz">>, <<"calB", "primary">>,
     <<"calB", "calB">>, <<"zz", "calB">>}

\* The ids of a list of calendars, as a set.
CalendarIds(calendars) == {calendars[i].id : i \in 1..Len(calendars)}

\* What a call leaves behind: op, raised and result describe the call;
\* stored_before is cache.visible_ids as the call found it; selection and
\* selected_at are the last set a client chose with update_visible_calendars
\* and when, kept while every later call found all of it available, until
\* the first call after its expiry and until a later update stores a set.
VisibilityReturn(op, raised, result, stored_before, selection, selected_at) ==
    [op |-> op, raised |-> raised, result |-> result,
     stored_before |-> stored_before, selection |-> selection,
     selected_at |-> selected_at]

InitCalendars ==
    /\ alias_state = EmptyAliasState
    /\ issued = {}
    /\ was_reset = FALSE
    /\ _sessions = EmptyMap
    /\ heap = EmptyMap
    /\ lastOp = VisibilityReturn("init", FALSE, <<>>, <<>>, {}, NoTime)
    /\ calendar_cache = EmptyCalendarCache
    /\ now = 1
    /\ user = None
    /\ task_lists_cache = EmptyTaskListCache
    /\ _data = EmptyMap
    /\ file = NoFile
    /\ _lock = None
    /\ threads = IdleThreads
    /\ last_write = "none"
    /\ google = None

calendarFrame ==
    <<alias_state, issued, was_reset, storeVars,
      user, google, task_lists_cache, _data,
      file, _lock, threads, last_write>>

\* The selection a visible_calendars call leaves to the calls after it.
SelectionAfter(available) ==
    IF \/ lastOp.selection = {}
       \/ now >= lastOp.selected_at + VisibleSelectionTtl
       \/ ~(lastOp.selection \subseteq CalendarIds(available))
    THEN {} ELSE lastOp.selection

VisibleCalendars ==
    \E reply \in RepliesRead(calendar_cache, now) :
    \E ret \in {visible_calendars(calendar_cache, now, reply)} :
        /\ calendar_cache' = ret.cache
        /\ lastOp' =
              IF ret.raised
              THEN VisibilityReturn("visible_calendars", TRUE, <<>>,
                                    calendar_cache.visible_ids,
                                    lastOp.selection, lastOp.selected_at)
              ELSE VisibilityReturn("visible_calendars", FALSE, ret.out,
                                    calendar_cache.visible_ids,
                                    SelectionAfter(ret.cache.available),
                                    lastOp.selected_at)
        /\ UNCHANGED <<now, calendarFrame>>

UpdateVisibleCalendars ==
    \E reply \in RepliesRead(calendar_cache, now), calendar_ids \in RequestedIds :
    \E again \in RepliesReadAgain(
                     available_calendars(calendar_cache, now, reply), now) :
    \E ret \in {update_visible_calendars(calendar_cache, now, reply, again,
                                         calendar_ids)} :
        /\ calendar_cache' = ret.cache
        /\ lastOp' =
              ("requested" :> calendar_ids) @@
              IF ret.raised
              THEN VisibilityReturn("update_visible_calendars", TRUE, <<>>,
                                    calendar_cache.visible_ids,
                                    IF available_calendars(
                                           calendar_cache, now, reply).raised
                                    THEN lastOp.selection ELSE {},
                                    lastOp.selected_at)
              ELSE VisibilityReturn("update_visible_calendars", FALSE, ret.out,
                                    calendar_cache.visible_ids,
                                    {cid \in Elements(calendar_ids) :
                                        HasCalendar(
                                            available_calendars(
                                                calendar_cache, now, reply).out,
                                            cid)},
                                    now)
        /\ UNCHANGED <<now, calendarFrame>>

\* available_calendars as is_readonly and the tools call it.  reply and reads
\* say what the source would answer and how often it was asked.
AvailableCalendars ==
    \E reply \in RepliesRead(calendar_cache, now) :
    \E ret \in {available_calendars(calendar_cache, now, reply)} :
        /\ calendar_cache' = ret.cache
        /\ lastOp' =
              ("reply" :> reply) @@ ("reads" :> ret.reads) @@
              VisibilityReturn("available_calendars", ret.raised, ret.out,
                               calendar_cache.visible_ids,
                               lastOp.selection, lastOp.selected_at)
        /\ UNCHANGED <<now, calendarFrame>>

RefreshCalendars ==
    \E reply \in VisibilityReplies :
    \E ret \in {refresh_calendars(calendar_cache, now, reply)} :
        /\ calendar_cache' = ret.cache
        /\ lastOp' = VisibilityReturn("refresh_calendars", ret.raised, ret.out,
                                      calendar_cache.visible_ids,
                                      lastOp.selection, lastOp.selected_at)
        /\ UNCHANGED <<now, calendarFrame>>

\* utils.now() moves on between two calls.
Tick ==
    \E step \in {ShortStep, LongStep} :
        /\ Ticks(now) < MaxTicks
        /\ now' = now + step
        /\ lastOp' = VisibilityReturn("tick", FALSE, <<>>, <<>>,
                                      lastOp.selection, lastOp.selected_at)
        /\ UNCHANGED <<calendar_cache, calendarFrame>>

NextCalendars ==
    \/ AvailableCalendars
    \/ VisibleCalendars
    \/ UpdateVisibleCalendars
    \/ RefreshCalendars
    \/ Tick

SpecCalendars == InitCalendars /\ [][NextCalendars]_vars

\* The calendars of a list that are flagged primary.
Primaries(calendars) ==
    {i \in 1..Len(calendars) : Get(calendars[i], "primary", FALSE)}

\* The default of a list of available calendars: its primary calendar alone,
\* or nothing when it has none.
IsDefaultOf(result, available) ==
    IF Primaries(available) = {} THEN result = <<>>
    ELSE /\ Len(result) = 1
         /\ \E i \in Primaries(available) : result[1] = available[i]

\* A visible_calendars call has returned.
VisibleReturned == lastOp.op = "visible_calendars" /\ ~lastOp.raised

\* C19: for a session with no stored visible selection, visible_calendars
\* returns exactly the primary calendar when the available list has one, and
\* the empty list when it has none.
C19_VisibilityDefault ==
    (VisibleReturned /\ lastOp.stored_before = <<>>)
    => IsDefaultOf(lastOp.result, calendar_cache.available)

\* With no stored selection and two calendars available, the primary one
\* alone was returned.
C19_Witness ==
    /\ VisibleReturned
    /\ lastOp.stored_before = <<>>
    /\ Len(calendar_cache.available) = 2
    /\ CalendarIds(lastOp.result) = {"primary"}

\* The calendars of a list whose ids are in a set, in the order of the list.
Chosen(available, ids) == SelectSeq(available, LAMBDA c : c.id \in ids)

\* C20: update_visible_calendars(S) with S a non-empty set of available
\* calendars returns the calendars in S; every visible_calendars call made
\* before 7 days have passed since, with S still available, returns exactly
\* the calendars in S; the first visible_calendars call made when the 7 days
\* have passed returns the default of the available list.
C20_VisibilityTtl ==
    [][/\ (lastOp'.op = "update_visible_calendars" /\ ~lastOp'.raised
              /\ lastOp'.selection # {})
          => lastOp'.result = Chosen(calendar_cache'.available, lastOp'.selection)
       /\ (lastOp'.op = "visible_calendars" /\ ~lastOp'.raised
              /\ lastOp.selection # {})
          => IF now < lastOp.selected_at + VisibleSelectionTtl
             THEN lastOp.selection \subseteq CalendarIds(calendar_cache'.available)
                  => lastOp'.result =
                         Chosen(calendar_cache'.available, lastOp.selection)
             ELSE IsDefaultOf(lastOp'.result, calendar_cache'.available)]_vars

\* Seven days after the client chose calB alone, with calB still available,
\* visible_calendars returned the primary calendar.
C20_Witness ==
    /\ VisibleReturned
    /\ lastOp.stored_before = <<"calB">>
    /\ lastOp.selected_at # NoTime
    /\ now >= lastOp.selected_at + VisibleSelectionTtl
    /\ "calB" \in CalendarIds(calendar_cache.available)
    /\ CalendarIds(lastOp.result) = {"primary"}

\* An update_visible_calendars call has returned in this step.
UpdateReturned == lastOp'.op = "update_visible_calendars" /\ ~lastOp'.raised

\* Where an element first occurs in a sequence.
FirstIndex(seq, x) ==
    CHOOSE i \in 1..Len(seq) : seq[i] = x /\ \A k \in 1..(i - 1) : seq[k] # x

\* stored is the requested ids that are in the allowed set, each once, in the
\* order in which they first occur in the request.
IsFilteredRequest(stored, requested, allowed) ==
    /\ NoRepeats(stored)
    /\ Elements(stored) = Elements(requested) \cap allowed
    /\ \A i, j \in 1..Len(stored) :
          i < j => FirstIndex(requested, stored[i]) < FirstIndex(requested, stored[j])

\* The selection is stored for seven days from the call.
StoredForSevenDays ==
    calendar_cache'.visible_expires_at = now + VisibleSelectionTtl

\* C21 as stated: when update_visible_calendars(ids) returns, the stored
\* visible_ids are ids filtered to the available ids, without repeats, in
\* first-occurrence order, the stored expiry is 7 days after the call, and the
\* returned list is the available calendars whose id is in that filtered list.
C21_SelectionUpdateAsClaimed ==
    [][UpdateReturned
       => /\ IsFilteredRequest(calendar_cache'.visible_ids, lastOp'.requested,
                               lastOp'.selection)
          /\ StoredForSevenDays
          /\ lastOp'.result =
                 Chosen(calendar_cache'.available, lastOp'.selection)]_vars

\* C21, amended: when update_visible_calendars(ids) returns, the stored expiry
\* is 7 days after the call; if some requested id is available, the stored
\* visible_ids are ids filtered to the available ids, without repeats, in
\* first-occurrence order, and the returned list is the available calendars
\* with those ids; if none is, the default is stored and returned.
C21_SelectionUpdate ==
    [][UpdateReturned
       => /\ StoredForSevenDays
          /\ IF lastOp'.selection # {}
             THEN /\ IsFilteredRequest(calendar_cache'.visible_ids,
                                       lastOp'.requested, lastOp'.selection)
                  /\ lastOp'.result =
                         Chosen(calendar_cache'.available, lastOp'.selection)
             ELSE /\ IsDefaultOf(lastOp'.result, calendar_cache'.available)
                  /\ calendar_cache'.visible_ids =
                         [i \in 1..Len(lastOp'.result) |-> lastOp'.result[i].id]]_vars

\* A request that names an unknown id and one calendar twice has stored and
\* returned that calendar once, out of two available ones.
C21_Witness ==
    /\ lastOp.op = "update_visible_calendars"
    /\ ~lastOp.raised
    /\ lastOp.requested \in {<<"calB", "calB">>, <<"zz", "calB">>}
    /\ calendar_cache.visible_ids = <<"calB">>
    /\ Len(calendar_cache.available) = 2
    /\ CalendarIds(lastOp.result) = {"calB"}

\* C22: in every state the calendar operations reach, with the external
\* calendar list free to change between reads, the stored visible_ids are
\* among the ids of the stored available list.
C22_CacheInvariant ==
    Elements(calendar_cache.visible_ids) \subseteq CalendarIds(calendar_cache.available)

\* The access roles under which a calendar's events can be listed, and those
\* under which they can be written.
ListableRoles == {"owner", "writer", "reader"}
WritableRoles == {"owner", "writer"}

\* The cached list a call found was populated and not yet expired.
FoundFresh ==
    /\ calendar_cache.available # <<>>
    /\ calendar_cache.available_expires_at > now

\* calendars are the listable items of the answer, in its order, each with
\* its readonly flag.
IsListableAnswer(calendars, items) ==
    LET listable == SelectSeq(items, LAMBDA c : c.access_role \in ListableRoles)
    IN  /\ Len(calendars) = Len(listable)
        /\ \A i \in 1..Len(calendars) :
              /\ \A f \in DOMAIN listable[i] : calendars[i][f] = listable[i][f]
              /\ DOMAIN calendars[i] = DOMAIN listable[i] \cup {"readonly"}
              /\ calendars[i].readonly = (calendars[i].access_role \notin WritableRoles)

\* C23: available_calendars returns the cached list without a call of the
\* external source when the list is populated and unexpired; otherwise it
\* calls the source exactly once, stores the calendars with a listable role,
\* each with its readonly flag, with an expiry 30 minutes ahead, and returns
\* them; when the call fails it raises and leaves the cache as it was.
C23_ReadThrough ==
    [][lastOp'.op = "available_calendars"
       => IF FoundFresh
          THEN /\ lastOp'.reads = 0
               /\ ~lastOp'.raised
               /\ lastOp'.result = calendar_cache.available
               /\ calendar_cache' = calendar_cache
          ELSE /\ lastOp'.reads = 1
               /\ IF ~lastOp'.reply.ok
                  THEN lastOp'.raised /\ calendar_cache' = calendar_cache
                  ELSE /\ ~lastOp'.raised
                       /\ IsListableAnswer(lastOp'.result, lastOp'.reply.items)
                       /\ calendar_cache' =
                              [calendar_cache EXCEPT
                                  !.available = lastOp'.result,
                                  !.available_expires_at =
                                      now + CALENDAR_LIST_TTL_MINUTES]]_vars

\* After the cached list expired, one read answered a calendar that can only
\* be seen as busy and the primary one; the primary one alone was stored.
C23_Witness ==
    /\ lastOp.op = "available_calendars"
    /\ lastOp.reads = 1
    /\ Len(lastOp.reply.items) = 2
    /\ CalendarIds(lastOp.result) = {"primary"}
    /\ calendar_cache.available = lastOp.result
    /\ now > 1
    /\ calendar_cache.available_expires_at = now + CALENDAR_LIST_TTL_MINUTES

\* A visible_calendars call has returned in this step.
VisibleReturnedNow == lastOp'.op = "visible_calendars" /\ ~lastOp'.raised

\* The call of this step found nothing to show in the store: no stored ids,
\* an expired selection, or no stored id among the available calendars.
FellBackToDefaults ==
    \/ calendar_cache.visible_ids = <<>>
    \/ calendar_cache.visible_expires_at <= now
    \/ Elements(calendar_cache.visible_ids)
           \cap CalendarIds(calendar_cache'.available) = {}

\* The ids of the default of a list of available calendars are stored, with
\* an expiry seven days after the call.
DefaultsStored ==
    /\ \E result \in SeqsUpTo(Elements(calendar_cache'.available), 1) :
          /\ IsDefaultOf(result, calendar_cache'.available)
          /\ calendar_cache'.visible_ids = [i \in 1..Len(result) |-> result[i].id]
    /\ calendar_cache'.visible_expires_at = now + VisibleSelectionTtl

\* C31 as stated: whenever visible_calendars falls back to defaults (no stored
\* ids, expired selection, or no stored id still available) it stores the
\* defaults with an expiry 7 days ahead; and for an account with no primary
\* calendar every visible_calendars call takes this path.
C31_DefaultRecomputedAsClaimed ==
    [][VisibleReturnedNow
       => /\ FellBackToDefaults => DefaultsStored
          /\ Primaries(calendar_cache'.available) = {} => FellBackToDefaults]_vars

\* C31, amended: whenever visible_calendars falls back to defaults it stores
\* the defaults with an expiry 7 days ahead, and it falls back in no other
\* case; for an account with no primary calendar the fallback stores no id,
\* and every visible_calendars call that finds no stored id falls back
\* again, until update_visible_calendars stores a selection.
C31_DefaultRecomputed ==
    [][VisibleReturnedNow
       => /\ IF FellBackToDefaults
             THEN DefaultsStored
             ELSE /\ calendar_cache'.visible_ids = calendar_cache.visible_ids
                  /\ calendar_cache'.visible_expires_at =
                         calendar_cache.visible_expires_at
          /\ (FellBackToDefaults /\ Primaries(calendar_cache'.available) = {})
             => calendar_cache'.visible_ids = <<>>
          /\ (lastOp.op = "visible_calendars" /\ ~lastOp.raised
                 /\ calendar_cache.visible_ids = <<>>)
             => FellBackToDefaults /\ DefaultsStored]_vars

\* With one calendar available and none primary, a later visible_calendars
\* call found no stored id again and moved the expiry on to seven days after
\* it.
C31_Witness ==
    /\ VisibleReturned
    /\ lastOp.stored_before = <<>>
    /\ Len(calendar_cache.available) = 1
    /\ Primaries(calendar_cache.available) = {}
    /\ calendar_cache.visible_ids = <<>>
    /\ now > 1
    /\ calendar_cache.visible_expires_at = now + VisibleSelectionTtl

-----------------------------------------------------------------------------
(* Tool calls together with the calls they make to the external calendar   *)
(* and task sources: backend/app/tools.py, calendar_visibility.py          *)

\* Cap on the number of times the lifetime of the cached calendar list passes.
MaxLapses == 1

\* A calendar shared with the right to write.
WriterCalendar ==
    [id |-> "calB", name |-> "Team", primary |-> FALSE, access_role |-> "writer"]

\* What list_calendars may answer while tools are in use.
ToolCalendarReplies ==
    CalendarReplies \cup {Answer(<<PrimaryCalendar, WriterCalendar>>)}

\* What list_events may answer for a calendar while tools are in use.
ListedEvents == {<<>>, <<[id |-> "E1", summary |-> "Standup", start |-> 2]>>}

\* Calendar ids a caller may ask is_readonly about.
AskedCalendarIds == {"primary", "calB", "calZ"}

\* The calendar cache after POST /api/calendars/visible chose both calendars
\* of a two-calendar account at the first instant.
BothSelected ==
    update_visible_calendars(EmptyCalendarCache, 1,
                             Answer(<<PrimaryCalendar, SharedCalendar>>),
                             Failure, <<"primary", "calB">>).cache

InitExternal ==
    /\ alias_state = EmptyAliasState
    /\ issued = {}
    /\ was_reset = FALSE
    /\ _sessions = EmptyMap
    /\ heap = EmptyMap
    /\ lastOp = [op |-> "init"]
    /\ calendar_cache \in {EmptyCalendarCache, BothSelected}
    /\ now = 1
    /\ user = None
    /\ task_lists_cache = EmptyTaskListCache
    /\ _data = EmptyMap
    /\ file = NoFile
    /\ _lock = None
    /\ threads = IdleThreads
    /\ last_write = "none"
    /\ google = None

\* One ToolExecutor.execute call, keeping its arguments and the external
\* calls it made.
TracedCall(name, arguments, env) ==
    \E ret \in {execute(name, arguments, TRUE, alias_state, calendar_cache,
                         now, env)} :
        /\ ret.alias_state.counter <= MaxAliases
        /\ alias_state' = ret.alias_state
        /\ calendar_cache' = ret.calendar_cache
        /\ lastOp' = [op |-> "execute", name |-> name, arguments |-> arguments,
                      raised |-> ret.raised, result |-> ret.result,
                      calls |-> ret.calls]
        /\ UNCHANGED <<issued, was_reset, storeVars, now, reminderVars>>

ToolListEvents ==
    \E calendars \in ToolCalendarReplies, events \in ListedEvents,
       fail \in {{}, {"primary"}} :
        TracedCall("list_events",
                   [start_date |-> "2024-05-01", end_date |-> "2024-05-01"],
                   [NoEnv EXCEPT !.calendars = calendars, !.events = events,
                                 !.events_fail = fail])

ToolUpdateEvent ==
    \E a \in EventArgs \ {None}, calendars \in ToolCalendarReplies,
       event \in EventItemReplies :
        TracedCall("update_event", [event_id |-> a, title |-> "Standup"],
                   [NoEnv EXCEPT !.calendars = calendars, !.event = event])

ToolListTaskLists ==
    \E lists \in {Failure, Answer(<<>>)} :
        TracedCall("list_task_lists", EmptyMap, [NoEnv EXCEPT !.task_lists = lists])

\* One CalendarVisibilityService.is_readonly call.
IsReadonly ==
    \E calendar_id \in AskedCalendarIds, reply \in ToolCalendarReplies :
      \E ret \in {is_readonly(calendar_cache, now, reply, calendar_id)} :
        /\ calendar_cache' = ret.cache
        /\ lastOp' = [op |-> "is_readonly", calendar_id |-> calendar_id,
                      raised |-> ret.raised, readonly |-> ret.out]
        /\ UNCHANGED <<alias_state, issued, was_reset, storeVars,
                       now, reminderVars>>

\* utils.now() moves on by the lifetime of the cached calendar list.
ListLapses ==
    /\ now < 1 + MaxLapses * CALENDAR_LIST_TTL_MINUTES
    /\ now' = now + CALENDAR_LIST_TTL_MINUTES
    /\ lastOp' = [op |-> "lapse"]
    /\ UNCHANGED <<alias_state, issued, was_reset, storeVars,
                   calendar_cache, reminderVars>>

NextExternal ==
    \/ ToolListEvents
    \/ ToolUpdateEvent
    \/ ToolListTaskLists
    \/ IsReadonly
    \/ ListLapses

SpecExternal == InitExternal /\ [][NextExternal]_vars

\* The calendar of the available list with this id grants writing.
ListedWritable(available, calendar_id) ==
    \E i \in 1..Len(available) :
        /\ available[i].id = calendar_id
        /\ available[i].access_role \in WritableRoles

\* The alias names an event that was registered as read-only.
FlaggedReadonly(s, event_alias) ==
    /\ event_alias \in DOMAIN s.aliases
    /\ s.aliases[event_alias].type = "event"
    /\ s.aliases[event_alias].readonly

\* The calendar update_event works on: that of the alias, else "primary".
CalendarOfEvent(s, event_alias) ==
    IF event_alias \in DOMAIN s.aliases /\ s.aliases[event_alias].type = "event"
    THEN s.aliases[event_alias].calendar_id
    ELSE "primary"

\* The calls of one source among the calls of a tool call.
CallsOf(calls, source) == SelectSeq(calls, LAMBDA c : c.source = source)

\* C24: is_readonly answers true for every calendar id that is not in the
\* session's available list, and for an available calendar exactly when its
\* access role is neither owner nor writer; and update_event calls the
\* external update only for an event whose alias is not flagged read-only and
\* whose calendar is in the available list with the role owner or writer.
C24_FailSafeReadonly ==
    [][/\ (lastOp'.op = "is_readonly" /\ ~lastOp'.raised) =>
            (lastOp'.readonly
                <=> ~ListedWritable(calendar_cache'.available,
                                    lastOp'.calendar_id))
       /\ (/\ lastOp'.op = "execute"
           /\ lastOp'.name = "update_event"
           /\ CallsOf(lastOp'.calls, "update_event") # <<>>) =>
            /\ ~FlaggedReadonly(alias_state, lastOp'.arguments.event_id)
            /\ ListedWritable(calendar_cache'.available,
                              CalendarOfEvent(alias_state,
                                              lastOp'.arguments.event_id))]_vars

\* update_event was refused, without any external update, for an alias that
\* is flagged read-only although its calendar has meanwhile become writable.
C24_Witness ==
    /\ lastOp.op = "execute"
    /\ lastOp.name = "update_event"
    /\ lastOp.raised
    /\ CallsOf(lastOp.calls, "update_event") = <<>>
    /\ FlaggedReadonly(alias_state, lastOp.arguments.event_id)
    /\ ListedWritable(calendar_cache.available,
                      CalendarOfEvent(alias_state, lastOp.arguments.event_id))

\* C27: whenever a call to the external calendar or task source made during
\* a ToolExecutor.execute invocation fails, the invocation ends in an error
\* and not in a normal result.
C27_FailuresSurfaced ==
    (/\ lastOp.op = "execute"
     /\ "calls" \in DOMAIN lastOp
     /\ \E i \in 1..Len(lastOp.calls) : ~lastOp.calls[i].reply.ok)
        => lastOp.raised

-----------------------------------------------------------------------------
(* The task-list cache of one session: backend/app/google.py (cached and   *)
(* prefetched reads), state.py, reminders.py (_default_task_list_id)       *)

\* ChatKitStateService._encode_task_lists: the id and name of every list
\* that has both, None when there is none.  json.dumps is kept as the
\* sequence it writes.
_encode_task_lists(task_lists) ==
    LET named == SelectSeq(task_lists,
                           LAMBDA l : /\ Get(l, "id", None) # None
                                      /\ Either(Get(l, "name", None),
                                                Get(l, "title", None)) # None)
        normalized == [i \in 1..Len(named) |->
                          [id |-> named[i].id,
                           name |-> Either(Get(named[i], "name", None),
                                           Get(named[i], "title", None))]]
    IN  IF normalized = <<>> THEN None ELSE normalized

\* ChatKitStateService.variables: connection is TRUE when the session has a
\* Google connection, lists is what list_task_lists answers.
variables(connection, cache, t, lists) ==
    LET cached == cached_task_lists(cache, t)
        fetched == prefetch_task_lists(cache, t, lists)
        tasklists == IF ~connection THEN <<>>
                     ELSE IF cached.out # <<>> THEN cached.out
                     ELSE fetched.out
    IN  [cache |-> IF connection /\ cached.out = <<>> THEN fetched.cache ELSE cache,
         out |-> [time |-> t, tasklists |-> _encode_task_lists(tasklists)],
         calls |-> IF connection /\ cached.out = <<>> THEN fetched.calls ELSE 0]

\* Cap on the hours the clock runs while the task-list cache is in use.
MaxHours == 1

\* What list_task_lists may answer while the cache is in use.
OfficeList == [id |-> "L2", title |-> "Office", name |-> "Office"]
FetchedLists == TaskListReplies \cup {Answer(<<OfficeList>>)}

InitTaskLists ==
    /\ alias_state = EmptyAliasState
    /\ issued = {}
    /\ was_reset = FALSE
    /\ _sessions = EmptyMap
    /\ heap = EmptyMap
    /\ lastOp = [op |-> "init"]
    /\ calendar_cache = EmptyCalendarCache
    /\ now = 1
    /\ user = None
    /\ task_lists_cache = EmptyTaskListCache
    /\ _data = EmptyMap
    /\ file = NoFile
    /\ _lock = None
    /\ threads = IdleThreads
    /\ last_write = "none"
    /\ google = None

\* What the task-list operations leave alone.
taskListFrame ==
    <<issued, was_reset, storeVars,
      calendar_cache, user, google, _data, file, _lock,
      threads, last_write>>

\* One GoogleTasksService.cached_task_lists call.
CachedTaskLists ==
    \E ret \in {cached_task_lists(task_lists_cache, now)} :
        /\ task_lists_cache' = ret.cache
        /\ lastOp' = [op |-> "cached_task_lists", raised |-> FALSE,
                      result |-> ret.out, calls |-> ret.calls]
        /\ UNCHANGED <<alias_state, now, taskListFrame>>

\* One GoogleTasksService.prefetch_task_lists call.
PrefetchTaskLists ==
    \E lists \in FetchedLists :
      \E ret \in {prefetch_task_lists(task_lists_cache, now, lists)} :
        /\ task_lists_cache' = ret.cache
        /\ lastOp' = [op |-> "prefetch_task_lists", raised |-> ret.raised,
                      result |-> ret.out, calls |-> ret.calls, reply |-> lists]
        /\ UNCHANGED <<alias_state, now, taskListFrame>>

\* One ChatKitStateService.variables call, as POST /api/create-session makes.
Variables ==
    \E connection \in BOOLEAN, lists \in FetchedLists :
      \E ret \in {variables(connection, task_lists_cache, now, lists)} :
        /\ task_lists_cache' = ret.cache
        /\ lastOp' = [op |-> "variables", raised |-> FALSE,
                      result |-> ret.out, calls |-> ret.calls,
                      connection |-> connection]
        /\ UNCHANGED <<alias_state, now, taskListFrame>>

\* One ReminderService._default_task_list_id call, as firing a reminder
\* makes.
DefaultTaskListId ==
    \E lists \in FetchedLists :
      \E ret \in {_default_task_list_id(task_lists_cache, alias_state, now, lists)} :
        /\ ret.state.counter <= MaxAliases
        /\ task_lists_cache' = ret.cache
        /\ alias_state' = ret.state
        /\ lastOp' = [op |-> "_default_task_list_id", raised |-> ret.raised,
                      result |-> ret.out, calls |-> ret.calls]
        /\ UNCHANGED <<now, taskListFrame>>

\* utils.now() moves on by half or all of the lifetime of the cached lists.
TaskListsAge ==
    \E step \in {TASKLIST_CACHE_MINUTES \div 2, TASKLIST_CACHE_MINUTES} :
        /\ now + step <= 1 + MaxHours * TASKLIST_CACHE_MINUTES
        /\ now' = now + step
        /\ lastOp' = [op |-> "age"]
        /\ UNCHANGED <<alias_state, task_lists_cache, taskListFrame>>

NextTaskLists ==
    \/ CachedTaskLists
    \/ PrefetchTaskLists
    \/ Variables
    \/ DefaultTaskListId
    \/ TaskListsAge

SpecTaskLists == InitTaskLists /\ [][NextTaskLists]_vars

\* The cache holds lists and their expiry is still ahead.
Unexpired(cache, t) ==
    cache.task_lists # <<>> /\ cache.expires_at # NoTime /\ cache.expires_at > t

\* C25: cached_task_lists never calls the external task source and never
\* changes the cache, and returns the cached lists when the cache is populated
\* and unexpired and the empty list otherwise; prefetch_task_lists calls the
\* external source once whatever the cache holds, and stores what it answered
\* with an expiry TASKLIST_CACHE_MINUTES (60) minutes ahead.
C25_TaskListCache ==
    [][/\ lastOp'.op = "cached_task_lists" =>
            /\ lastOp'.calls = 0
            /\ task_lists_cache' = task_lists_cache
            /\ Unexpired(task_lists_cache, now) =>
                    lastOp'.result = task_lists_cache.task_lists
            /\ ~Unexpired(task_lists_cache, now) => lastOp'.result = <<>>
       /\ lastOp'.op = "prefetch_task_lists" =>
            /\ lastOp'.calls = 1
            /\ ~lastOp'.raised =>
                /\ task_lists_cache'.task_lists = lastOp'.reply.items
                /\ task_lists_cache'.expires_at = now + 60
                /\ lastOp'.result = lastOp'.reply.items]_vars

\* A cached read found lists whose expiry had passed and returned nothing.
C25_Witness ==
    /\ lastOp.op = "cached_task_lists"
    /\ lastOp.result = <<>>
    /\ task_lists_cache.task_lists # <<>>
    /\ task_lists_cache.expires_at <= now

\* C29: ChatKitStateService.variables reads the task lists only from the
\* cache and never calls the external task source, whatever the cache holds.
C29_VariablesNeverFetch ==
    lastOp.op = "variables" => lastOp.calls = 0

\* C30: when a reminder is fired, the head of the cached task lists is the
\* default list only while the cache is populated and unexpired; an empty or
\* expired cache is treated as absent and the lists are fetched.
C30_DefaultRespectsTtl ==
    [][lastOp'.op = "_default_task_list_id" =>
            IF Unexpired(task_lists_cache, now)
            THEN /\ lastOp'.calls = 0
                 /\ lastOp'.result = task_lists_cache.task_lists[1].id
            ELSE lastOp'.calls = 1]_vars

-----------------------------------------------------------------------------
(* One session under the request handlers of backend/app/main.py, with     *)
(* google.py (handle_oauth_callback, disconnect) and sessions.py           *)
(* (reset_aliases).  Handlers run on the event loop; what they hand to     *)
(* run_in_threadpool runs beside it.                                       *)

\* Cap on the Google connections that leave a trace in the session at once.
MaxConnections == 2

\* GoogleConnection objects, told apart by a name.
ConnectionName(k) == "c" \o ToString(k)
Connections == {ConnectionName(k) : k \in 1..MaxConnections}

\* The requests in progress: GET /api/calendars, POST /api/create-session,
\* GET /api/google/callback and POST /api/chatkit/tool.
SessionRequests == {"calendars", "create_session", "callback", "tool"}

\* A request at pc that was handed connection and holds held.  Its copies
\* field holds the dict its AliasService is bound to once reset_aliases has
\* given the session another one.
Request(pc, connection, held, result) ==
    [IdleThread EXCEPT !.pc = pc, !.connection = connection, !.held = held,
                       !.result = result]
IdleRequest == Request("idle", None, <<>>, <<>>)

\* What the external sources answer under a connection.  The connection
\* field of an item is history: the connection it was fetched under.
CalendarsOf(connection) ==
    <<[id |-> "primary", name |-> "Me", primary |-> TRUE,
       access_role |-> "owner", connection |-> connection]>>
TaskListsOf(connection) ==
    <<[id |-> "L1", title |-> "Home", name |-> "Home",
       connection |-> connection]>>

\* The answer of a call made with a connection: a failure without one.
AnswerUnder(connection, ok, items) ==
    IF connection = None \/ ~ok THEN Failure ELSE Answer(items)

InitSession ==
    /\ alias_state = EmptyAliasState
    /\ issued = {}
    /\ was_reset = FALSE
    /\ _sessions = EmptyMap
    /\ heap = EmptyMap
    /\ lastOp = [op |-> "init"]
    /\ calendar_cache = EmptyCalendarCache
    /\ now = 1
    /\ user = None
    /\ task_lists_cache = EmptyTaskListCache
    /\ _data = EmptyMap
    /\ file = NoFile
    /\ _lock = None
    /\ threads = [r \in SessionRequests |-> IdleRequest]
    /\ last_write = "none"
    /\ google = None

\* What no request handler touches.
sessionFrame == <<issued, was_reset, storeVars,
                  now, _data, file, _lock, last_write>>

\* The event loop runs one handler at a time up to its next await; the
\* task-list fetch of ChatKitStateService.variables is no await.
EventLoopFree == threads["create_session"].pc # "prefetching"

\* session.calendar_cache = CalendarCache(): a fetch in flight keeps the
\* CalendarCache object it read before.
Detached(ths) ==
    [ths EXCEPT !["calendars"] =
        IF @.pc = "fetching" /\ @.held = <<>>
        THEN [@ EXCEPT !.held = <<calendar_cache>>]
        ELSE @]

\* The requests that hold an AliasService: AliasService(session.alias_state)
\* is built before the first await of the handler.
HoldsAliasService(request, r) ==
    \/ r = "calendars" /\ request.pc \in {"fetching", "listed", "visible"}
    \/ r = "tool" /\ request.pc \in {"executing", "responding"}

\* SessionStore.reset_aliases: the session gets a new dict, and the
\* AliasService of a request in flight keeps the dict it was built with.
reset_aliases(ths) ==
    [r \in DOMAIN ths |->
        IF HoldsAliasService(ths[r], r) /\ ths[r].copies = <<>>
        THEN [ths[r] EXCEPT !.copies = <<alias_state>>]
        ELSE ths[r]]

\* The dict the AliasService of a request is bound to.
BoundState(request) ==
    IF request.copies = <<>> THEN alias_state ELSE request.copies[1]

\* The aliases in the id fields of a list of masked items.
AliasesOf(items) == {items[i].id : i \in 1..Len(items)}

\* The connections the session still holds a trace of.
InUse ==
    {google}
    \cup {threads[r].connection : r \in SessionRequests}
    \cup UNION {{threads["calendars"].held[i].available[j].connection :
                    j \in 1..Len(threads["calendars"].held[i].available)} :
                 i \in 1..Len(threads["calendars"].held)}
    \cup {calendar_cache.available[i].connection :
            i \in 1..Len(calendar_cache.available)}
    \cup {task_lists_cache.task_lists[i].connection :
            i \in 1..Len(task_lists_cache.task_lists)}

\* POST /api/auth/login
LoginRequest ==
    /\ EventLoopFree
    /\ \E email \in {None, "a@example.com"} :
        IF email = None
        THEN /\ lastOp' = [op |-> "login", ok |-> FALSE]
             /\ UNCHANGED user
        ELSE /\ user' = IF user # None THEN user ELSE UserId
             /\ lastOp' = [op |-> "login", ok |-> TRUE]
    /\ UNCHANGED <<alias_state, google, calendar_cache, task_lists_cache,
                   threads, sessionFrame>>

\* POST /api/auth/logout: disconnect(session), then reset_aliases.
LogoutRequest ==
    /\ EventLoopFree
    /\ user' = None
    /\ google' = None
    /\ calendar_cache' = EmptyCalendarCache
    /\ task_lists_cache' = EmptyTaskListCache
    /\ threads' = reset_aliases(Detached(threads))
    /\ alias_state' = EmptyAliasState
    /\ lastOp' = [op |-> "logout", ok |-> TRUE]
    /\ UNCHANGED sessionFrame

\* POST /api/google/disconnect
DisconnectRequest ==
    /\ EventLoopFree
    /\ IF google # None
       THEN /\ google' = None
            /\ calendar_cache' = EmptyCalendarCache
            /\ task_lists_cache' = EmptyTaskListCache
            /\ threads' = reset_aliases(Detached(threads))
            /\ alias_state' = EmptyAliasState
       ELSE UNCHANGED <<google, calendar_cache, task_lists_cache, threads,
                        alias_state>>
    /\ lastOp' = [op |-> "disconnect", ok |-> TRUE]
    /\ UNCHANGED <<user, sessionFrame>>

\* GET /api/google/callback up to run_in_threadpool(handle_oauth_callback).
CallbackBegin ==
    /\ EventLoopFree
    /\ threads["callback"].pc = "idle"
    /\ threads' = [threads EXCEPT !["callback"] =
                        Request("exchanging", None, <<>>, <<>>)]
    /\ lastOp' = [op |-> "callback_begin", ok |-> TRUE]
    /\ UNCHANGED <<alias_state, google, user, calendar_cache, task_lists_cache,
                   sessionFrame>>

\* handle_oauth_callback in the thread pool: a failed exchange leaves the
\* session alone, a successful one stores a new connection and new caches.
CallbackConnect ==
    /\ threads["callback"].pc = "exchanging"
    /\ \/ /\ threads' = [threads EXCEPT !["callback"] = IdleRequest]
          /\ lastOp' = [op |-> "callback", ok |-> FALSE]
          /\ UNCHANGED <<google, calendar_cache, task_lists_cache>>
       \/ \E connection \in Connections \ InUse :
          /\ google' = connection
          /\ calendar_cache' = EmptyCalendarCache
          /\ task_lists_cache' = EmptyTaskListCache
          /\ threads' = [Detached(threads) EXCEPT !["callback"] =
                              Request("connected", connection, <<>>, <<>>)]
          /\ lastOp' = [op |-> "callback_connect", ok |-> TRUE]
    /\ UNCHANGED <<alias_state, user, sessionFrame>>

\* GET /api/google/callback after the thread pool: reset_aliases, redirect.
CallbackComplete ==
    /\ EventLoopFree
    /\ threads["callback"].pc = "connected"
    /\ alias_state' = EmptyAliasState
    /\ threads' = [reset_aliases(threads) EXCEPT !["callback"] = IdleRequest]
    /\ lastOp' = [op |-> "callback", ok |-> TRUE]
    /\ UNCHANGED <<google, user, calendar_cache, task_lists_cache, sessionFrame>>

\* GET /api/calendars up to the read of the external source in
\* available_calendars: a fresh list is handed out at once.
CalendarsBegin ==
    /\ EventLoopFree
    /\ threads["calendars"].pc = "idle"
    /\ user # None
    /\ google # None
    /\ threads' = [threads EXCEPT !["calendars"] =
            IF available_calendars(calendar_cache, now, Failure).reads = 0
            THEN Request("listed", google, <<>>, calendar_cache.available)
            ELSE Request("fetching", google, <<>>, <<>>)]
    /\ lastOp' = [op |-> "calendars_begin", ok |-> TRUE]
    /\ UNCHANGED <<alias_state, google, user, calendar_cache, task_lists_cache,
                   sessionFrame>>

\* available_calendars from the answer of list_calendars on: the cache
\* object read at the start is filled and assigned to the session.
CalendarsFetched ==
    /\ threads["calendars"].pc = "fetching"
    /\ \E ok \in BOOLEAN :
       LET request == threads["calendars"]
           cache == IF request.held = <<>> THEN calendar_cache
                    ELSE request.held[1]
           ret == available_calendars(
                      cache, now,
                      AnswerUnder(request.connection, ok,
                                  CalendarsOf(request.connection)))
       IN  IF ret.raised
           THEN /\ threads' = [threads EXCEPT !["calendars"] = IdleRequest]
                /\ lastOp' = [op |-> "calendars", ok |-> FALSE]
                /\ UNCHANGED calendar_cache
           ELSE /\ calendar_cache' = ret.cache
                /\ threads' = [threads EXCEPT !["calendars"] =
                                    [request EXCEPT !.pc = "listed",
                                                    !.held = <<>>,
                                                    !.result = ret.out]]
                /\ lastOp' = [op |-> "calendars_fetched", ok |-> TRUE]
    /\ UNCHANGED <<alias_state, google, user, task_lists_cache, sessionFrame>>

\* GET /api/calendars: visible_calendars(session.google, session) in the
\* thread pool.
CalendarsVisible ==
    /\ threads["calendars"].pc = "listed"
    /\ \E ok \in BOOLEAN :
       LET request == threads["calendars"]
           ret == visible_calendars(calendar_cache, now,
                                    AnswerUnder(google, ok, CalendarsOf(google)))
       IN  IF ret.raised
           THEN /\ threads' = [threads EXCEPT !["calendars"] = IdleRequest]
                /\ lastOp' = [op |-> "calendars", ok |-> FALSE]
                /\ UNCHANGED calendar_cache
           ELSE /\ calendar_cache' = ret.cache
                /\ threads' = [threads EXCEPT !["calendars"] =
                                    [request EXCEPT !.pc = "visible"]]
                /\ lastOp' = [op |-> "calendars_visible", ok |-> TRUE]
    /\ UNCHANGED <<alias_state, google, user, task_lists_cache, sessionFrame>>

\* GET /api/calendars: the available calendars go out masked by the
\* AliasService built at the start of the handler.
CalendarsRespond ==
    /\ EventLoopFree
    /\ threads["calendars"].pc = "visible"
    /\ \E masked \in {mask_calendars(BoundState(threads["calendars"]),
                                      threads["calendars"].result)} :
        /\ masked.state.counter <= MaxAliases
        /\ alias_state' = IF threads["calendars"].copies = <<>>
                          THEN masked.state ELSE alias_state
        /\ lastOp' = [op |-> "calendars", ok |-> TRUE,
                      returned |-> AliasesOf(masked.out)]
    /\ threads' = [threads EXCEPT !["calendars"] = IdleRequest]
    /\ UNCHANGED <<google, user, calendar_cache, task_lists_cache, sessionFrame>>

\* POST /api/chatkit/tool up to run_in_threadpool(TOOL_EXECUTOR.execute): the
\* handler reads session.google and builds its AliasService.
ToolBegin ==
    /\ EventLoopFree
    /\ threads["tool"].pc = "idle"
    /\ IF google = None
       THEN /\ lastOp' = [op |-> "tool", ok |-> FALSE, returned |-> {}]
            /\ UNCHANGED threads
       ELSE /\ threads' = [threads EXCEPT !["tool"] =
                               Request("executing", google, <<>>, <<>>)]
            /\ lastOp' = [op |-> "tool_begin", ok |-> TRUE]
    /\ UNCHANGED <<alias_state, google, user, calendar_cache, task_lists_cache,
                   sessionFrame>>

\* TOOL_EXECUTOR.execute("list_task_lists") in the thread pool, with the
\* connection and the AliasService the handler passed.
ToolExecute ==
    /\ threads["tool"].pc = "executing"
    /\ \E ok \in BOOLEAN :
       LET request == threads["tool"]
           ret == execute("list_task_lists", EmptyMap, TRUE,
                          BoundState(request), calendar_cache, now,
                          [NoEnv EXCEPT !.task_lists =
                              AnswerUnder(request.connection, ok,
                                          TaskListsOf(request.connection))])
       IN  /\ ret.alias_state.counter <= MaxAliases
           /\ alias_state' = IF request.copies = <<>>
                             THEN ret.alias_state ELSE alias_state
           /\ threads' = [threads EXCEPT !["tool"] =
                  [request EXCEPT
                      !.pc = "responding",
                      !.raised = ret.raised,
                      !.result = ret.result.items,
                      !.copies = IF request.copies = <<>> THEN <<>>
                                 ELSE <<ret.alias_state>>]]
    /\ lastOp' = [op |-> "tool_executed", ok |-> TRUE]
    /\ UNCHANGED <<google, user, calendar_cache, task_lists_cache, sessionFrame>>

\* POST /api/chatkit/tool after the thread pool: the result, or the error,
\* goes to the client.
ToolRespond ==
    /\ EventLoopFree
    /\ threads["tool"].pc = "responding"
    /\ lastOp' = [op |-> "tool", ok |-> ~threads["tool"].raised,
                  returned |-> AliasesOf(threads["tool"].result)]
    /\ threads' = [threads EXCEPT !["tool"] = IdleRequest]
    /\ UNCHANGED <<alias_state, google, user, calendar_cache, task_lists_cache,
                   sessionFrame>>

\* POST /api/create-session up to the read of the external source in
\* ChatKitStateService.variables: it fetches when the session is connected
\* and the cached read is empty.
CreateSessionBegin ==
    /\ EventLoopFree
    /\ threads["create_session"].pc = "idle"
    /\ threads' = [threads EXCEPT !["create_session"] =
            IF google # None /\ cached_task_lists(task_lists_cache, now).out = <<>>
            THEN Request("prefetching", google, <<>>, <<>>)
            ELSE Request("posting", google, <<>>, <<>>)]
    /\ lastOp' = [op |-> "create_session_begin", ok |-> TRUE]
    /\ UNCHANGED <<alias_state, google, user, calendar_cache, task_lists_cache,
                   sessionFrame>>

\* prefetch_task_lists from the answer of list_task_lists on: the lists go
\* into the cache the session holds by then.
CreateSessionPrefetched ==
    /\ threads["create_session"].pc = "prefetching"
    /\ \E ok \in BOOLEAN :
       LET request == threads["create_session"]
           ret == prefetch_task_lists(
                      task_lists_cache, now,
                      AnswerUnder(request.connection, ok,
                                  TaskListsOf(request.connection)))
       IN  task_lists_cache' = ret.cache
    /\ threads' = [threads EXCEPT !["create_session"].pc = "posting"]
    /\ lastOp' = [op |-> "create_session_prefetched", ok |-> TRUE]
    /\ UNCHANGED <<alias_state, google, user, calendar_cache, sessionFrame>>

\* POST /api/create-session from the answer of the ChatKit API on:
\* reset_aliases when a client secret was issued.
CreateSessionIssued ==
    /\ threads["create_session"].pc = "posting"
    /\ \E ok \in BOOLEAN :
        /\ alias_state' = IF ok THEN EmptyAliasState ELSE alias_state
        /\ lastOp' = [op |-> "create_session", ok |-> ok]
        /\ threads' = [(IF ok THEN reset_aliases(threads) ELSE threads)
                          EXCEPT !["create_session"] = IdleRequest]
    /\ UNCHANGED <<google, user, calendar_cache, task_lists_cache, sessionFrame>>

NextSession ==
    \/ LoginRequest
    \/ LogoutRequest
    \/ DisconnectRequest
    \/ CallbackBegin
    \/ CallbackConnect
    \/ CallbackComplete
    \/ CalendarsBegin
    \/ CalendarsFetched
    \/ CalendarsVisible
    \/ CalendarsRespond
    \/ CreateSessionBegin
    \/ CreateSessionPrefetched
    \/ CreateSessionIssued

SpecSession == InitSession /\ [][NextSession]_vars

\* Tool calls of one session next to the handlers that connect it,
\* disconnect it and log it out.
NextToolCalls ==
    \/ LogoutRequest
    \/ DisconnectRequest
    \/ CallbackBegin
    \/ CallbackConnect
    \/ CallbackComplete
    \/ ToolBegin
    \/ ToolExecute
    \/ ToolRespond

SpecToolCalls == InitSession /\ [][NextToolCalls]_vars

\* C26: after every successful login, logout, OAuth callback, Google
\* disconnect and client-secret issuance the alias table of the session is
\* empty: counter 0, no aliases and no reverse entries.
C26_AliasResetOnIdentityChange ==
    (/\ lastOp.op \in {"login", "logout", "callback", "disconnect",
                       "create_session"}
     /\ lastOp.ok)
        => alias_state = EmptyAliasState

\* The connections under which the cached calendars and task lists were
\* fetched.
CachedUnder ==
    {calendar_cache.available[i].connection :
        i \in 1..Len(calendar_cache.available)}
    \cup {task_lists_cache.task_lists[i].connection :
            i \in 1..Len(task_lists_cache.task_lists)}

\* C28: in every interleaving of the handlers of one session, once a logout,
\* a Google disconnect or a successful OAuth callback has completed, the
\* calendar cache and the task-list cache of the session hold no entry that
\* was fetched under an earlier connection.
C28_NoStaleCacheEntries ==
    threads["callback"].pc # "connected" => CachedUnder \subseteq {google}

\* C36: every alias a tool call returns to the client is in the session's
\* current alias table when the call returns, also when reset_aliases ran
\* for the session while the call was in flight.
C36_ReturnedAliasesLive ==
    (lastOp.op = "tool" /\ lastOp.ok)
        => lastOp.returned \subseteq DOMAIN alias_state.aliases

-----------------------------------------------------------------------------
(* Two tool calls of one session in the thread pool: AliasService._register *)
(* statement by statement on the dict both calls share (backend/app/alias.py)*)

\* The payloads the two calls register: the task lists of the account.
RegisterInputs == {TaskListPayload("L1"), TaskListPayload("L2")}

\* A thread inside _register: the statement it is at and its locals.
Registering(pc, payload, counter, alias) ==
    [pc |-> pc, payload |-> payload, counter |-> counter, alias |-> alias]
NotRegistering == Registering("idle", NoPayload, 0, None)

InitRegister ==
    /\ alias_state = EmptyAliasState
    /\ issued = {}
    /\ was_reset = FALSE
    /\ _sessions = EmptyMap
    /\ heap = EmptyMap
    /\ lastOp = [op |-> "init"]
    /\ calendar_cache = EmptyCalendarCache
    /\ now = 1
    /\ user = None
    /\ task_lists_cache = EmptyTaskListCache
    /\ _data = EmptyMap
    /\ file = NoFile
    /\ _lock = None
    /\ threads = [t \in Threads |-> NotRegistering]
    /\ last_write = "none"
    /\ google = None

\* What no statement of _register touches.
registerFrame ==
    <<was_reset, storeVars, lastOp, calendar_cache, now, user, google,
      task_lists_cache, _data, file, _lock, last_write>>

\* _register is entered: reverse = self._state.setdefault("reverse", {}) and
\* key = self._payload_key(payload).
RegisterEnter(t) ==
    \E payload \in RegisterInputs :
        /\ threads[t].pc = "idle"
        /\ threads' = [threads EXCEPT ![t] = Registering("test", payload, 0, None)]
        /\ UNCHANGED <<alias_state, issued, registerFrame>>

\* if key in reverse: return reverse[key]
RegisterTest(t) ==
    LET key == _payload_key(threads[t].payload)
    IN  /\ threads[t].pc = "test"
        /\ threads' = [threads EXCEPT ![t] =
              IF key \in DOMAIN alias_state.reverse
              THEN [@ EXCEPT !.pc = "return", !.alias = alias_state.reverse[key]]
              ELSE [@ EXCEPT !.pc = "count"]]
        /\ UNCHANGED <<alias_state, issued, registerFrame>>

\* counter = int(self._state.get("counter", 0)) + 1; alias = str(counter)
RegisterCount(t) ==
    /\ threads[t].pc = "count"
    /\ alias_state.counter < MaxAliases
    /\ threads' = [threads EXCEPT
          ![t].pc = "store",
          ![t].counter = alias_state.counter + 1,
          ![t].alias = ToString(alias_state.counter + 1)]
    /\ UNCHANGED <<alias_state, issued, registerFrame>>

\* self._state["counter"] = counter
RegisterStoreCounter(t) ==
    /\ threads[t].pc = "store"
    /\ alias_state' = [alias_state EXCEPT !.counter = threads[t].counter]
    /\ threads' = [threads EXCEPT ![t].pc = "alias"]
    /\ UNCHANGED <<issued, registerFrame>>

\* aliases = self._state.setdefault("aliases", {}); aliases[alias] = payload
RegisterStoreAlias(t) ==
    /\ threads[t].pc = "alias"
    /\ alias_state' =
          [alias_state EXCEPT
              !.aliases = (threads[t].alias :> threads[t].payload)
                              @@ alias_state.aliases]
    /\ threads' = [threads EXCEPT ![t].pc = "reverse"]
    /\ UNCHANGED <<issued, registerFrame>>

\* reverse[key] = alias
RegisterStoreReverse(t) ==
    /\ threads[t].pc = "reverse"
    /\ alias_state' =
          [alias_state EXCEPT
              !.reverse = (_payload_key(threads[t].payload) :> threads[t].alias)
                              @@ alias_state.reverse]
    /\ threads' = [threads EXCEPT ![t].pc = "return"]
    /\ UNCHANGED <<issued, registerFrame>>

\* return alias: the caller has the alias for its payload.
RegisterReturn(t) ==
    /\ threads[t].pc = "return"
    /\ issued' = issued \cup {<<IdentityOf(threads[t].payload), threads[t].alias>>}
    /\ threads' = [threads EXCEPT ![t] = NotRegistering]
    /\ UNCHANGED <<alias_state, registerFrame>>

NextRegister ==
    \/ \E t \in Threads : RegisterEnter(t)
    \/ \E t \in Threads : RegisterTest(t)
    \/ \E t \in Threads : RegisterCount(t)
    \/ \E t \in Threads : RegisterStoreCounter(t)
    \/ \E t \in Threads : RegisterStoreAlias(t)
    \/ \E t \in Threads : RegisterStoreReverse(t)
    \/ \E t \in Threads : RegisterReturn(t)

SpecRegister == InitRegister /\ [][NextRegister]_vars

\* C34: when the register steps of two concurrent tool calls of a session
\* interleave statement by statement, then once both have returned no two
\* different payload identities share an alias, and every alias returned to
\* a caller resolves to the payload it was issued for.
C34_ThreadSafeRegister ==
    (\A t \in Threads : threads[t].pc = "idle")
    => /\ \A p, q \in issued : p[2] = q[2] => p[1] = q[1]
       /\ \A p \in issued :
             /\ p[2] \in DOMAIN alias_state.aliases
             /\ IdentityOf(alias_state.aliases[p[2]]) = p[1]

-----------------------------------------------------------------------------
(* The sessions of the session store side by side: backend/app/sessions.py, *)
(* models.py, google.py and the request handlers of main.py, each handler   *)
(* run from ensure_session to its response.                                 *)

\* Cap on the number of sessions the store holds.
MaxSessions == 2

\* Cap on the number of uuid4() values drawn: session ids, user ids, nonces.
MaxUuids == 3

\* A new object on the heap: its identity differs from every live one.
NewRef(h) ==
    CHOOSE n \in 1..(Cardinality(DOMAIN h) + 1) :
        /\ n \notin DOMAIN h
        /\ \A k \in 1..(n - 1) : k \in DOMAIN h
NewObject(h, value) ==
    [ref |-> NewRef(h), heap |-> (NewRef(h) :> value) @@ h]

\* A SessionData whose mutable defaults are the same objects for every
\* instance.
SharedDefaults(h) ==
    [data |-> [user |-> None, google |-> None, alias_state |-> 1,
               calendar_cache |-> 2, task_lists_cache |-> 3,
               oauth_state |-> None],
     heap |-> h @@ (1 :> EmptyAliasState) @@ (2 :> EmptyCalendarCache)
                @@ (3 :> EmptyTaskListCache)]

\* SessionData(): every default_factory builds a new object.
SessionData(h) ==
    LET a == NewObject(h, EmptyAliasState)
        c == NewObject(a.heap, EmptyCalendarCache)
        l == NewObject(c.heap, EmptyTaskListCache)
    IN  [data |-> [user |-> None, google |-> None, alias_state |-> a.ref,
                   calendar_cache |-> c.ref, task_lists_cache |-> l.ref,
                   oauth_state |-> None],
         heap |-> l.heap]

\* SessionStore.ensure; uuid is what uuid.uuid4() returns if it is called.
ensure(sessions, h, session_id, uuid) ==
    IF session_id # None /\ session_id \in DOMAIN sessions
    THEN [id |-> session_id, sessions |-> sessions, heap |-> h]
    ELSE LET new_id == IF session_id # None THEN session_id ELSE uuid
             made == SessionData(h)
         IN  [id |-> new_id,
              sessions |-> (new_id :> made.data) @@ sessions,
              heap |-> made.heap]

\* SessionStore.reset_aliases on the heap: a new dict for the session.
ResetAliases(data, h) ==
    LET a == NewObject(h, EmptyAliasState)
    IN  [data |-> [data EXCEPT !.alias_state = a.ref], heap |-> a.heap]

\* google.disconnect
disconnect(data, h) ==
    LET c == NewObject(h, EmptyCalendarCache)
        l == NewObject(c.heap, EmptyTaskListCache)
    IN  [data |-> [data EXCEPT !.google = None, !.calendar_cache = c.ref,
                               !.task_lists_cache = l.ref,
                               !.oauth_state = None],
         heap |-> l.heap]

\* google.handle_oauth_callback; exchanged says whether fetch_token and the
\* email lookup succeed.
handle_oauth_callback(data, h, state, exchanged) ==
    IF data.oauth_state # None /\ data.oauth_state # state
    THEN [raised |-> TRUE, data |-> data, heap |-> h]
    ELSE IF ~exchanged THEN [raised |-> TRUE, data |-> data, heap |-> h]
    ELSE LET c == NewObject(h, EmptyCalendarCache)
             l == NewObject(c.heap, EmptyTaskListCache)
         IN  [raised |-> FALSE,
              data |-> [data EXCEPT !.google = ConnectionName(1),
                                    !.oauth_state = None,
                                    !.calendar_cache = c.ref,
                                    !.task_lists_cache = l.ref],
              heap |-> l.heap]

\* The objects no session refers to any more are gone, and the live ones are
\* named by the first place that refers to them: an object's identity is
\* which references reach it, never its address.
Collect(sessions, h) ==
    LET ids == DOMAIN sessions
        order == CHOOSE f \in [1..Cardinality(ids) -> ids] :
                     \A i, j \in 1..Cardinality(ids) : i # j => f[i] # f[j]
        Slot(k) == LET data == sessions[order[((k - 1) \div 3) + 1]]
                   IN  CASE (k - 1) % 3 = 0 -> data.alias_state
                         [] (k - 1) % 3 = 1 -> data.calendar_cache
                         [] OTHER -> data.task_lists_cache
        slots == 1..(3 * Cardinality(ids))
        Moved(ref) == CHOOSE k \in slots :
                          /\ Slot(k) = ref
                          /\ \A l \in slots : Slot(l) = ref => k <= l
    IN  [sessions |->
            [sid \in ids |->
                [sessions[sid] EXCEPT
                    !.alias_state = Moved(sessions[sid].alias_state),
                    !.calendar_cache = Moved(sessions[sid].calendar_cache),
                    !.task_lists_cache =
                        Moved(sessions[sid].task_lists_cache)]],
         heap |-> [k \in {Moved(Slot(l)) : l \in slots} |-> h[Slot(k)]]]

\* The session tokens a client can present: none, the id of a session, the
\* id of a user (serialize_user hands it out), or a text of its own.
Tokens ==
    {None, "tok"} \cup DOMAIN _sessions
        \cup {_sessions[sid].user : sid \in DOMAIN _sessions}

\* The states a callback request can carry: a nonce in use, or any other
\* text.
CallbackStates ==
    {"forged"} \cup ({_sessions[sid].oauth_state : sid \in DOMAIN _sessions}
                        \ {None})

InitSessions ==
    /\ alias_state = EmptyAliasState
    /\ issued = {}
    /\ was_reset = FALSE
    /\ _sessions = EmptyMap
    /\ heap = EmptyMap
    /\ lastOp = [op |-> "init", session |-> None, ok |-> TRUE, uuids |-> 0]
    /\ calendar_cache = EmptyCalendarCache
    /\ now = 1
    /\ user = None
    /\ task_lists_cache = EmptyTaskListCache
    /\ _data = EmptyMap
    /\ file = NoFile
    /\ _lock = None
    /\ threads = IdleThreads
    /\ last_write = "none"
    /\ google = None

\* What the handlers of the session store leave alone.
sessionsFrame ==
    <<alias_state, issued, was_reset, calendar_cache, now, user,
      task_lists_cache, _data, file, _lock, threads, last_write, google>>

\* The k-th uuid.uuid4() of a handler.
Uuid(kind, k) == kind \o ToString(lastOp.uuids + k)

\* ensure_session(request) for the cookie a request carries.
ensure_session(token) == ensure(_sessions, heap, token, Uuid("s", 1))

\* The number of uuid4() calls of ensure_session for the cookie.
Drawn(token) == IF token = None THEN 1 ELSE 0

\* The store can take the session of the request and the uuids it draws.
Admitted(token, draws) ==
    /\ token \in DOMAIN _sessions \/ Cardinality(DOMAIN _sessions) < MaxSessions
    /\ lastOp.uuids + Drawn(token) + draws <= MaxUuids

\* A handler ends: session e.id is left as data, the heap as h.
Respond(e, data, h, op, ok, draws, more) ==
    /\ \E left \in {Collect([e.sessions EXCEPT ![e.id] = data], h)} :
           /\ _sessions' = left.sessions
           /\ heap' = left.heap
    /\ lastOp' = more @@ [op |-> op, session |-> e.id, ok |-> ok,
                          uuids |-> lastOp.uuids + draws]
    /\ UNCHANGED sessionsFrame

\* What the external sources answer to every session here.
ListedCalendars == Answer(<<PrimaryCalendar, SharedCalendar>>)
ListedTaskLists == Answer(<<OfficeList>>)

\* The calendars_payload of calendars and update_calendars.
WithSelected(available, visible) ==
    [i \in 1..Len(available) |->
        ("selected" :> (available[i].id \in CalendarIds(visible)))
            @@ available[i]]

\* GET /api/auth/session
GetAuthSession(token) ==
    /\ Admitted(token, 0)
    /\ \E e \in {ensure_session(token)} :
          Respond(e, e.sessions[e.id], e.heap, "auth_session", TRUE,
                  Drawn(token), EmptyMap)

\* POST /api/auth/login with an email.
PostLogin(token) ==
    \E e \in {ensure_session(token)} :
      LET data == e.sessions[e.id]
          draws == Drawn(token) + (IF data.user = None THEN 1 ELSE 0)
          user_id == IF data.user # None THEN data.user
                     ELSE Uuid("u", Drawn(token) + 1)
      IN  /\ Admitted(token, draws - Drawn(token))
          /\ Respond(e, [data EXCEPT !.user = user_id], e.heap, "login", TRUE,
                     draws, EmptyMap)

\* POST /api/auth/logout
PostLogout(token) ==
    /\ Admitted(token, 0)
    /\ \E e \in {ensure_session(token)} :
       \E off \in {disconnect([e.sessions[e.id] EXCEPT !.user = None], e.heap)} :
       \E reset \in {ResetAliases(off.data, off.heap)} :
          Respond(e, reset.data, reset.heap, "logout", TRUE, Drawn(token),
                  EmptyMap)

\* GET /api/google/auth-url: authorization_url stores a new nonce.
GetAuthUrl(token) ==
    \E e \in {ensure_session(token)} :
      LET data == e.sessions[e.id]
      IN  IF data.user = None
          THEN /\ Admitted(token, 0)
               /\ Respond(e, data, e.heap, "auth_url", FALSE, Drawn(token),
                          EmptyMap)
          ELSE /\ Admitted(token, 1)
               /\ Respond(e,
                          [data EXCEPT !.oauth_state =
                                           Uuid("n", Drawn(token) + 1)],
                          e.heap, "auth_url", TRUE, Drawn(token) + 1, EmptyMap)

\* GET /api/google/callback with a code and a state.
GetCallback(token) ==
    /\ Admitted(token, 0)
    /\ \E state \in CallbackStates, exchanged \in BOOLEAN :
       \E e \in {ensure_session(token)} :
       \E ret \in {handle_oauth_callback(e.sessions[e.id], e.heap, state,
                                         exchanged)} :
       \E reset \in {ResetAliases(ret.data, ret.heap)} :
       \E more \in {[state |-> state,
                      nonce |-> e.sessions[e.id].oauth_state]} :
          IF ret.raised
          THEN Respond(e, e.sessions[e.id], e.heap, "callback", FALSE,
                       Drawn(token), more)
          ELSE Respond(e, reset.data, reset.heap, "callback", TRUE,
                       Drawn(token), more)

\* POST /api/google/disconnect
PostDisconnect(token) ==
    /\ Admitted(token, 0)
    /\ \E e \in {ensure_session(token)} :
       \E off \in {disconnect(e.sessions[e.id], e.heap)} :
       \E reset \in {ResetAliases(off.data, off.heap)} :
          IF e.sessions[e.id].google # None
          THEN Respond(e, reset.data, reset.heap, "disconnect", TRUE,
                       Drawn(token), EmptyMap)
          ELSE Respond(e, e.sessions[e.id], e.heap, "disconnect", TRUE,
                       Drawn(token), EmptyMap)

\* GET /api/calendars
GetCalendars(token) ==
    /\ Admitted(token, 0)
    /\ \E e \in {ensure_session(token)} :
       LET data == e.sessions[e.id]
           available == available_calendars(e.heap[data.calendar_cache], now,
                                            ListedCalendars)
           visible == visible_calendars(available.cache, now, ListedCalendars)
           masked == mask_calendars(e.heap[data.alias_state],
                                    WithSelected(available.out, visible.out))
       IN  IF data.user = None \/ data.google = None
           THEN Respond(e, data, e.heap, "calendars", FALSE, Drawn(token),
                        EmptyMap)
           ELSE /\ masked.state.counter <= MaxAliases
                /\ Respond(e, data,
                           [e.heap EXCEPT ![data.calendar_cache] = visible.cache,
                                          ![data.alias_state] = masked.state],
                           "calendars", TRUE, Drawn(token), EmptyMap)

\* POST /api/calendars/visible with a list of aliases or ids.
PostCalendarsVisible(token) ==
    /\ Admitted(token, 0)
    /\ \E raw_calendars \in {<<"2">>} :
       \E e \in {ensure_session(token)} :
       LET data == e.sessions[e.id]
           selected_ids ==
               [i \in 1..Len(raw_calendars) |->
                   resolve_calendar(e.heap[data.alias_state], raw_calendars[i])]
           visible == update_visible_calendars(
                          e.heap[data.calendar_cache], now, ListedCalendars,
                          ListedCalendars, selected_ids)
           available == available_calendars(visible.cache, now, ListedCalendars)
           masked == mask_calendars(e.heap[data.alias_state],
                                    WithSelected(available.out, visible.out))
       IN  IF data.user = None \/ data.google = None
           THEN Respond(e, data, e.heap, "update_calendars", FALSE,
                        Drawn(token), EmptyMap)
           ELSE /\ masked.state.counter <= MaxAliases
                /\ Respond(e, data,
                           [e.heap EXCEPT
                               ![data.calendar_cache] = available.cache,
                               ![data.alias_state] = masked.state],
                           "update_calendars", TRUE, Drawn(token),
                           [raw_calendars |-> raw_calendars,
                            selected_ids |-> selected_ids,
                            known |-> DOMAIN e.heap[data.alias_state].aliases])

\* POST /api/create-session: ChatKitStateService.variables fills the
\* task-list cache of a connected session, and reset_aliases runs when a
\* client secret was issued.
PostCreateSession(token) ==
    /\ Admitted(token, 0)
    /\ \E issued_secret \in BOOLEAN :
       \E e \in {ensure_session(token)} :
       LET data == e.sessions[e.id]
           filled == variables(data.google # None,
                               e.heap[data.task_lists_cache], now,
                               ListedTaskLists)
           h == [e.heap EXCEPT ![data.task_lists_cache] = filled.cache]
           reset == ResetAliases(data, h)
       IN  IF issued_secret
           THEN Respond(e, reset.data, reset.heap, "create_session", TRUE,
                        Drawn(token), EmptyMap)
           ELSE Respond(e, data, h, "create_session", FALSE, Drawn(token),
                        EmptyMap)

\* The cookies of the browsers at work: the store adopts each as a session
\* id on its first request.
Cookies == {"cookieA", "cookieB"}

NextSessions ==
    \/ \E token \in Cookies : PostLogin(token)
    \/ \E token \in Cookies : PostLogout(token)
    \/ \E token \in Cookies : GetCallback(token)
    \/ \E token \in Cookies : PostDisconnect(token)
    \/ \E token \in Cookies : GetCalendars(token)
    \/ \E token \in Cookies : PostCalendarsVisible(token)
    \/ \E token \in Cookies : PostCreateSession(token)

SpecSessions == InitSessions /\ [][NextSessions]_vars

\* The three mutable objects of a session, by content.
ObjectsOf(sessions, h, sid) ==
    [alias_state |-> h[sessions[sid].alias_state],
     calendar_cache |-> h[sessions[sid].calendar_cache],
     task_lists_cache |-> h[sessions[sid].task_lists_cache]]

\* The objects a session refers to.
RefsOf(sessions, sid) ==
    {sessions[sid].alias_state, sessions[sid].calendar_cache,
     sessions[sid].task_lists_cache}

\* C32: a request of one session (login, logout, callback, disconnect,
\* calendars, update of the selection, create-session with its cache fill
\* and alias reset) leaves the alias table, the calendar cache and the
\* task-list cache of every other session as they were, no two sessions
\* hold the same object, and a value a session posts that is no alias of
\* its own table stays what it is, whatever another session's table says.
C32_NoCrossSessionSharing ==
    [][/\ \A b \in DOMAIN _sessions :
              b # lastOp'.session =>
                  /\ b \in DOMAIN _sessions'
                  /\ ObjectsOf(_sessions', heap', b)
                         = ObjectsOf(_sessions, heap, b)
       /\ \A a, b \in DOMAIN _sessions' :
              a # b => RefsOf(_sessions', a) \cap RefsOf(_sessions', b) = {}
       /\ (lastOp'.op = "update_calendars" /\ lastOp'.ok) =>
              \A i \in 1..Len(lastOp'.raw_calendars) :
                  lastOp'.raw_calendars[i] \notin lastOp'.known =>
                      lastOp'.selected_ids[i] = lastOp'.raw_calendars[i]
      ]_vars

\* Two sessions with masked calendars and filled caches; one of them has
\* just posted "2", an alias of the other's table and none of its own, and
\* it was taken as the raw value.
C32_Witness ==
    \E a, b \in DOMAIN _sessions :
        /\ a # b
        /\ lastOp.op = "update_calendars" /\ lastOp.ok
        /\ lastOp.session = a
        /\ "2" \notin lastOp.known
        /\ lastOp.selected_ids = <<"2">>
        /\ "2" \in DOMAIN heap[_sessions[b].alias_state].aliases
        /\ heap[_sessions[b].calendar_cache] # EmptyCalendarCache
        /\ heap[_sessions[b].task_lists_cache] # EmptyTaskListCache
        /\ heap[_sessions[a].alias_state] # EmptyAliasState
        /\ heap[_sessions[a].calendar_cache] # EmptyCalendarCache

\* Any client, with any cookie, at the sign-in and OAuth endpoints.
NextPrincipals ==
    \/ \E token \in Tokens : GetAuthSession(token)
    \/ \E token \in Tokens : PostLogin(token)
    \/ \E token \in Tokens : PostLogout(token)
    \/ \E token \in Tokens : GetAuthUrl(token)
    \/ \E token \in Tokens : GetCallback(token)
    \/ \E token \in Tokens : PostDisconnect(token)

SpecPrincipals == InitSessions /\ [][NextPrincipals]_vars

\* C38: a callback links a Google connection only when the session holds an
\* outstanding nonce of authorization_url and the callback's state equals
\* it; one that is turned away leaves the session as it was.
C38_NonceChecked ==
    lastOp.op = "callback" =>
        IF lastOp.ok
        THEN lastOp.nonce # None /\ lastOp.state = lastOp.nonce
        ELSE /\ _sessions[lastOp.session].google = None
             /\ _sessions[lastOp.session].oauth_state = lastOp.nonce

\* C39: the owner key of a session nobody is logged in to differs from the
\* owner key of every session somebody is logged in to.
C39_OwnerKeysApart ==
    \A a, b \in DOMAIN _sessions :
        (_sessions[a].user = None /\ _sessions[b].user # None) =>
            _owner_key(a, _sessions[a].user) # _owner_key(b, _sessions[b].user)

====
